---------------------------- MODULE Spec2Model ----------------------------
(***************************************************************************)
(* Tic-tac-toe WebSocket server: the turn engine (internal/game), the room *)
(* loop (internal/room), the hub loop (internal/hub) and the connection    *)
(* pumps (internal/client), as a state machine.                            *)
(*                                                                         *)
(* Specifications:                                                         *)
(*   SpecGame   the turn engine alone: ApplyMove called with any mark and  *)
(*              any coordinates on a state reached from NewGameState.      *)
(*   SpecLobby  three connections creating, joining and leaving one room.  *)
(*   SpecRooms  two connections moving between two rooms.                  *)
(*   SpecPlay   two connections playing in one room.                       *)
(*   SpecTalk   two connections, one room, queues of three messages.       *)
(*   SpecCrowd  three connections, one room, moves sent while it is busy.  *)
(*   SpecMatch  two connections playing one game to a win or a draw.       *)
(*   SpecFifo   two connections, one room, each message numbered as its    *)
(*              channel accepts it and as the write pump writes it.        *)
(*   SpecDoor   two connections arriving under a limit of one.             *)
(*   SpecList   two connections, one room, LIST_ROOMS requests.            *)
(*   SpecEnd    two connections playing one game, with the fairness of     *)
(*              the Go scheduler and of select.                            *)
(*   SpecOver   two connections, one room, a game abandoned and moves      *)
(*              sent after it, with room for two messages in c.Send.       *)
(*   SpecClose  two connections leaving, the close of c.Send by the hub    *)
(*              and by ReadPump taken one step at a time.                  *)
(*   SpecStale  two connections, one room that stops while requests        *)
(*              for it are on their way.                                   *)
(*   SpecLeave  two connections whose read pumps return, with the          *)
(*              fairness of the Go scheduler and of select.                *)
(*   SpecShut   two connections, one room and the shutdown of main.        *)
(*   Spec       all of it, over every connection id and room id.           *)
(***************************************************************************)
EXTENDS Integers, Sequences, FiniteSets, TLC

\* ------------------------------------------------------------------ bounds
\* How far outside the 3x3 grid the coordinates given to ApplyMove range.
OutOfRange == 1

Symbols == {"X", "O"}
Idx == 0..2
Coords == (0 - OutOfRange)..(2 + OutOfRange)

\* ------------------------------------------------------------- turn engine
\* game.Board{}: the zero value of [3][3]string.
EmptyBoard == [i \in Idx |-> [j \in Idx |-> ""]]

NoPlayers == [c \in {} |-> ""]

NewGameState ==
    [Board             |-> EmptyBoard,
     CurrentTurnSymbol |-> "X",
     PlayerSymbols     |-> NoPlayers,
     Winner            |-> "",
     IsGameOver        |-> FALSE,
     IsDraw            |-> FALSE]

RowWins(board) == {i \in Idx : board[i][0] # "" /\ board[i][0] = board[i][1] /\ board[i][1] = board[i][2]}
ColWins(board) == {i \in Idx : board[0][i] # "" /\ board[0][i] = board[1][i] /\ board[1][i] = board[2][i]}

Lowest(S) == CHOOSE i \in S : \A j \in S : i <= j

\* CheckWin gone wrong: the secondary diagonal is not looked at.
CheckWinNoAnti(gs) ==
    LET board == gs.Board IN
    IF RowWins(board) # {} THEN <<board[Lowest(RowWins(board))][0], FALSE>>
    ELSE IF ColWins(board) # {} THEN <<board[0][Lowest(ColWins(board))], FALSE>>
    ELSE IF board[0][0] # "" /\ board[0][0] = board[1][1] /\ board[1][1] = board[2][2]
         THEN <<board[0][0], FALSE>>
    ELSE <<"", \A i \in Idx, j \in Idx : board[i][j] # "">>

\* CheckWin returns <<winnerSymbol, isDraw>>: rows, then columns, then the main
\* diagonal, then the secondary one, then the full-board test.
CheckWin(gs) ==
    LET board == gs.Board IN
    IF RowWins(board) # {} THEN <<board[Lowest(RowWins(board))][0], FALSE>>
    ELSE IF ColWins(board) # {} THEN <<board[0][Lowest(ColWins(board))], FALSE>>
    ELSE IF board[0][0] # "" /\ board[0][0] = board[1][1] /\ board[1][1] = board[2][2]
         THEN <<board[0][0], FALSE>>
    ELSE IF board[0][2] # "" /\ board[0][2] = board[1][1] /\ board[1][1] = board[2][0]
         THEN <<board[0][2], FALSE>>
    ELSE <<"", \A i \in Idx, j \in Idx : board[i][j] # "">>

\* NextTurn gone wrong: the turn stays with the mover.
NextTurnStuck(sym) == sym

NextTurn(sym) == IF sym = "X" THEN "O" ELSE "X"

\* CellFree gone wrong: every cell counts as free.
CellFreeAlways(board, row, col) == TRUE

CellFree(board, row, col) == board[row][col] = ""

\* Mark gone wrong: a win is recorded but the game is not closed.
MarkWinLeftOpen(gs, playerSymbol, row, col) ==
    LET marked == [gs EXCEPT !.Board[row][col] = playerSymbol]
        res    == CheckWin(marked)
    IN  IF res[1] # "" THEN [marked EXCEPT !.Winner = res[1]]
        ELSE IF res[2] THEN [marked EXCEPT !.IsDraw = TRUE, !.IsGameOver = TRUE]
        ELSE [marked EXCEPT !.CurrentTurnSymbol = NextTurn(gs.CurrentTurnSymbol)]

\* The state ApplyMove leaves once the four checks have passed.
Mark(gs, playerSymbol, row, col) ==
    LET marked == [gs EXCEPT !.Board[row][col] = playerSymbol]
        res    == CheckWin(marked)
    IN  IF res[1] # "" THEN [marked EXCEPT !.Winner = res[1], !.IsGameOver = TRUE]
        ELSE IF res[2] THEN [marked EXCEPT !.IsDraw = TRUE, !.IsGameOver = TRUE]
        ELSE [marked EXCEPT !.CurrentTurnSymbol = NextTurn(gs.CurrentTurnSymbol)]

\* ApplyMove gone wrong: the bounds are checked before the turn.
ApplyMoveBoundsFirst(gs, playerSymbol, row, col) ==
    IF gs.IsGameOver THEN [err |-> "game_over", gs |-> gs]
    ELSE IF row < 0 \/ row > 2 \/ col < 0 \/ col > 2 THEN [err |-> "out_of_bounds", gs |-> gs]
    ELSE IF gs.CurrentTurnSymbol # playerSymbol THEN [err |-> "wrong_turn", gs |-> gs]
    ELSE IF ~CellFree(gs.Board, row, col) THEN [err |-> "occupied", gs |-> gs]
    ELSE [err |-> "", gs |-> Mark(gs, playerSymbol, row, col)]

\* ApplyMove returns [err, gs]: err is "" for nil, else which check failed.
ApplyMove(gs, playerSymbol, row, col) ==
    IF gs.IsGameOver THEN [err |-> "game_over", gs |-> gs]
    ELSE IF gs.CurrentTurnSymbol # playerSymbol THEN [err |-> "wrong_turn", gs |-> gs]
    ELSE IF row < 0 \/ row > 2 \/ col < 0 \/ col > 2 THEN [err |-> "out_of_bounds", gs |-> gs]
    ELSE IF ~CellFree(gs.Board, row, col) THEN [err |-> "occupied", gs |-> gs]
    ELSE [err |-> "", gs |-> Mark(gs, playerSymbol, row, col)]

\* ------------------------------------------- bounds of the concurrent part
\* SpecLobby: connections accepted and rooms created over the server's life.
LobbyClients == 3
LobbyRooms == 1
\* SpecRooms: the same for two connections moving between two rooms.
DuoClients == 2
DuoRooms == 2
\* SpecPlay: the same for two connections playing in one room.
PlayClients == 2
PlayRooms == 1
\* cap(c.Send) in SpecLobby, SpecRooms, SpecPlay and Spec.
SendCap == 1
\* MAKE_MOVE requests aim at the cells 0..MaxMoveCell of the grid, counted row
\* by row, or off the grid.
MaxMoveCell == 4
\* SpecEnd: connections, rooms and cap(c.Send)
EndClients == 2
EndRooms == 1
EndCap == 1
\* SpecOver: connections, rooms and cap(c.Send)
OverClients == 2
OverRooms == 1
OverCap == 2
\* SpecClose: connections, rooms and cap(c.Send)
CloseClients == 2
CloseRooms == 1
CloseCap == 1
\* SpecStale: connections, rooms and cap(c.Send)
StaleClients == 2
StaleRooms == 1
StaleCap == 1
\* SpecLeave: connections, rooms and cap(c.Send)
LeaveClients == 2
LeaveRooms == 1
LeaveCap == 1
\* SpecShut: connections, rooms and cap(c.Send)
ShutClients == 2
ShutRooms == 1
ShutCap == 1
\* SpecList: connections, rooms and cap(c.Send)
ListClients == 2
ListRooms == 1
ListCap == 1
\* TICTACTOE_MAX_CLIENTS, the limit handleConnections compares with (1000
\* unless set), and the connections and rooms of SpecDoor.
maxTotalClients == 1
DoorClients == 2
DoorRooms == 1
\* TICTACTOE_MAX_ROOMS, the limit main hands to the hub (500 unless set).
maxRooms == 1
\* SpecFifo: connections, rooms, cap(c.Send), and the messages a Send accepts
FifoClients == 2
FifoRooms == 1
FifoCap == 2
MaxEvents == 4

\* SpecTalk: connections, rooms and cap(c.Send) for two connections whose
\* queues hold every message one handler sends them.
TalkClients == 2
TalkRooms == 1
TalkCap == 3
\* SpecCrowd: connections, rooms and cap(c.Send) for three connections around
\* one room.
CrowdClients == 3
CrowdRooms == 1
CrowdCap == 1
\* SpecMatch: connections, rooms, cap(c.Send), and the cells each connection's
\* MAKE_MOVE requests aim at, counted row by row.
MatchClients == 2
MatchRooms == 1
MatchCap == 2
MatchCells(c) == IF c = 1 THEN {0, 1, 2, 5, 6, 8} ELSE {2, 3, 4, 7}

Max(a, b) == IF a >= b THEN a ELSE b
\* Connection ids and room ids, in the order they are handed out.
Clients == 1..Max(Max(Max(LobbyClients, DuoClients), Max(FifoClients, Max(DoorClients, Max(ListClients, Max(OverClients, Max(CloseClients, Max(StaleClients, Max(LeaveClients, Max(ShutClients, EndClients))))))))), Max(Max(PlayClients, CrowdClients), Max(TalkClients, MatchClients)))
RoomIds == 1..Max(Max(Max(LobbyRooms, DuoRooms), Max(FifoRooms, Max(DoorRooms, Max(ListRooms, Max(OverRooms, Max(CloseRooms, Max(StaleRooms, Max(LeaveRooms, Max(ShutRooms, EndRooms))))))))), Max(Max(PlayRooms, CrowdRooms), Max(TalkRooms, MatchRooms)))
Moves == {<<i \div 3, i % 3>> : i \in 0..MaxMoveCell} \cup {<<3, 0>>}
\* nil for c.Room, and "" for a player id
Nil == 0

VARIABLES
    g,        \* SpecGame: the *GameState the engine is called on
    gCall,    \* SpecGame: the last ApplyMove call, [sym, row, col, err]
    conn,     \* per connection, where ReadPump is: "new" (not accepted yet),
              \* "refused" or "admitted" (handleConnections compared with the
              \* limit and is done, or is in its send to h.Register), "open"
              \* (reading requests), "leaving" (ReadPump returned and its
              \* deferred function is in UnregisterClient, SpecLeave only),
              \* "unreg" (the hub took its Unregister),
              \* "closing" (its deferred select chose close(c.Send)), "closed"
    cRoom,    \* per connection: Client.Room, a room id or Nil
    mvRoom,   \* per connection: the room its ReadPump read from c.Room and is
              \* blocked sending a move to, or Nil
    Send,     \* per connection: how many messages Client.Send buffers (what a
              \* step puts on it is in last.sent; nothing reads the content but
              \* WritePump, which writes it out in channel order)
    sendClosed, \* per connection: Client.Send has been closed
    hClients, \* Hub.Clients
    hRooms,   \* the keys of Hub.Rooms
    hubPc,    \* where Hub.Run is: [op |-> "idle"], or blocked in a send to a room,
              \* or "stopped" once it has returned
    nextRoom, \* the next fresh room id
    rooms,    \* per room id: the Room object and the position of Room.Run
    crashed,  \* a goroutine panicked: the process is gone
    sendCap,  \* cap(c.Send), the same for every connection; NewClient makes the
              \* channel with room for 256 messages, the model with fewer
    listing,  \* per connection: where its ReadPump is in Hub.ListRooms, with the
              \* keys the range over h.Rooms started from, the RoomInfo rows
              \* made so far, and (history) the views Hub.Rooms and the rooms'
              \* Clients went through since the call began
    fifo,     \* per connection: how many messages Client.Send accepted (acc),
              \* the ones it buffers (q) and the ones WritePump wrote to Conn
              \* (out), a message being the number under which the channel
              \* accepted it; kept in the specifications that start with fifo.on
    last      \* history: the last step taken, see Step

srvVars == <<listing, fifo, sendCap, mvRoom, conn, cRoom, Send, sendClosed, hClients, hRooms, hubPc, nextRoom, rooms, crashed, last>>
vars == <<listing, fifo, sendCap, mvRoom, g, gCall, conn, cRoom, Send, sendClosed, hClients, hRooms, hubPc, nextRoom, rooms, crashed, last>>

\* ------------------------------------------------------------- messages
\* getBoardJSON: the [3][3]string array as a slice of three slices.
getBoardJSON(board) ==
    << <<board[0][0], board[0][1], board[0][2]>>,
       <<board[1][0], board[1][1], board[1][2]>>,
       <<board[2][0], board[2][1], board[2][2]>> >>

Msg(type) ==
    [type |-> type, roomId |-> Nil, playerId |-> Nil, symbol |-> "", board |-> <<>>,
     turn |-> "", players |-> <<>>, row |-> 0, col |-> 0, winner |-> Nil, isDraw |-> FALSE, text |-> "",
     rooms |-> <<>>]

ErrorMsg(type, text) == [Msg(type) EXCEPT !.text = text]
RoomInfoMsg(type, r, c, sym) == [Msg(type) EXCEPT !.roomId = r, !.playerId = c, !.symbol = sym]
PlayerMsg(type, c) == [Msg(type) EXCEPT !.playerId = c]
GameStartMsg(gs) ==
    [Msg("GAME_START") EXCEPT !.board = getBoardJSON(gs.Board), !.turn = gs.CurrentTurnSymbol,
                              !.players = gs.PlayerSymbols]
GameUpdateMsg(gs, row, col) ==
    [Msg("GAME_UPDATE") EXCEPT !.board = getBoardJSON(gs.Board), !.turn = gs.CurrentTurnSymbol,
                               !.row = row, !.col = col]
GameOverMsg(gs, winner, isDraw) ==
    [Msg("GAME_OVER") EXCEPT !.board = getBoardJSON(gs.Board), !.winner = winner, !.isDraw = isDraw]

\* One send of a handler: to whom, what, and whether it is the plain blocking
\* `ch <- m` (errors.SendError) or the `select { case ch <- m: default: }` form.
Snd(c, m, blocking) == [to |-> c, msg |-> m, blocking |-> blocking]

RECURSIVE SeqOfSet(_)
SeqOfSet(S) == IF S = {} THEN <<>> ELSE LET x == Lowest(S) IN <<x>> \o SeqOfSet(S \ {x})

RECURSIVE Flatten(_)
Flatten(ss) == IF ss = <<>> THEN <<>> ELSE Head(ss) \o Flatten(Tail(ss))


\* A send on a closed channel panics, in a select as well; a select with a
\* default drops the message when the buffer is full; a plain send waits.
\* st.n counts the messages each channel buffers, st.sent lists what was put.
Deliver(st, s) ==
    IF st.panic \/ st.blocked THEN st
    ELSE IF sendClosed[s.to] THEN [st EXCEPT !.panic = TRUE]
    ELSE IF st.n[s.to] < sendCap
         THEN [st EXCEPT !.n[s.to] = @ + 1, !.sent = Append(@, [to |-> s.to, msg |-> s.msg])]
    ELSE IF s.blocking THEN [st EXCEPT !.blocked = TRUE]
    ELSE st

RECURSIVE DeliverAll(_, _)
DeliverAll(st, sends) ==
    IF sends = <<>> THEN st ELSE DeliverAll(Deliver(st, Head(sends)), Tail(sends))

Delivered(sends) ==
    DeliverAll([n |-> Send, sent |-> <<>>, panic |-> FALSE, blocked |-> FALSE], sends)

\* Get gone wrong: no key is ever found.
GetNothing(m, k) == ""

\* Go maps as functions on the set of their keys.
Get(m, k) == IF k \in DOMAIN m THEN m[k] ELSE ""
Put(m, k, v) == [x \in DOMAIN m \cup {k} |-> IF x = k THEN v ELSE m[x]]
Del(m, k) == [x \in DOMAIN m \ {k} |-> m[x]]

\* The record of a step: what ran, for which connection and room, the branch it
\* took, whether it panicked, and the messages it put on Send channels, in order.
Step(op, c, r, res) ==
    [op |-> op, c |-> c, r |-> r, res |-> res, row |-> 0, col |-> 0, panic |-> FALSE, sent |-> <<>>]

\* Steps that no property looks at leave the same record.
Tau == Step("tau", Nil, Nil, "")

\* ------------------------------------------------------------------ rooms
NoMsg == [kind |-> "none", c |-> Nil]

\* The room before CreateRoom made it (pc "none"), and as NewRoom returns it;
\* sentOver (history) tells whether a channel accepted a GAME_OVER of the room.
NoRoom ==
    [pc |-> "none", msg |-> NoMsg, ctxDone |-> FALSE, Clients |-> {},
     GameState |-> NewGameState, tClean |-> 0, tJoined |-> 0, dClean |-> 0, dJoined |-> 0,
     sentOver |-> FALSE]

NewRoom == [NoRoom EXCEPT !.pc = "idle"]

\* RoomIsFull gone wrong: off by one, the room lets a third player in.
RoomIsFullLoose(playerCount) == playerCount > 3

\* `if playerCount > 2`
RoomIsFull(playerCount) == playerCount > 2

\* A Register that left the client in r.Clients voids, for the record, every
\* grace timer still asleep: a join was processed within its grace period.
Admitted(rm) == [rm EXCEPT !.tJoined = rm.tJoined + rm.tClean, !.tClean = 0]

\* case client := <-r.Register, isReconnecting with two symbols assigned: the
\* branch that ends in `continue`.
Reconnected(rm, r, c) ==
    LET gs      == rm.GameState
        sym     == gs.PlayerSymbols[c]
        clients == rm.Clients \cup {c}
    IN  [room   |-> Admitted([rm EXCEPT !.Clients = clients]),
         sends  |-> << Snd(c, [RoomInfoMsg("ROOM_JOINED", r, c, sym) EXCEPT !.board = getBoardJSON(gs.Board)], FALSE),
                       Snd(c, GameStartMsg(gs), FALSE),
                       Snd(c, GameUpdateMsg(gs, 0, 0), FALSE) >>
                    \o Flatten([i \in DOMAIN SeqOfSet(clients \ {c}) |-> LET d == SeqOfSet(clients \ {c})[i] IN <<Snd(d, PlayerMsg("PLAYER_RECONNECTED", c), FALSE)>>]),
         unbind |-> {},
         res    |-> "reconnected"]

\* SecondSymbol gone wrong: the second player gets X whatever the first holds.
SecondSymbolAlwaysX(firstPlayerSymbol) == "X"

\* `if firstPlayerSymbol == "X" { symbol = "O" } else { symbol = "X" }`
SecondSymbol(firstPlayerSymbol) == IF firstPlayerSymbol = "X" THEN "O" ELSE "X"

\* The normal connection flow of Register; `pre` are the sends already made.
NormalFlow(rm, r, c, pre) ==
    LET gs          == rm.GameState
        clients     == rm.Clients \cup {c}
        playerCount == Cardinality(clients)
    IN  IF RoomIsFull(playerCount)
        THEN [room   |-> [rm EXCEPT !.Clients = clients \ {c}],
              sends  |-> pre \o <<Snd(c, ErrorMsg("ERROR_ROOM_FULL", ""), TRUE)>>,
              unbind |-> {c},
              res    |-> "room_full"]
        ELSE IF playerCount = 1 \/ Cardinality(DOMAIN gs.PlayerSymbols) = 0
        THEN [room   |-> Admitted([rm EXCEPT !.Clients = clients,
                                             !.GameState.PlayerSymbols = Put(NoPlayers, c, "X")]),
              sends  |-> pre \o <<Snd(c, RoomInfoMsg("WAITING_FOR_OPPONENT", r, c, "X"), FALSE)>>,
              unbind |-> {},
              res    |-> "waiting"]
        ELSE IF playerCount = 2
        THEN LET firstPlayer == CHOOSE d \in clients : d # c
                 symbol == SecondSymbol(Get(gs.PlayerSymbols, firstPlayer))
                 gs2    == [gs EXCEPT !.PlayerSymbols = Put(gs.PlayerSymbols, c, symbol),
                                      !.CurrentTurnSymbol = "X"]
             IN  [room   |-> Admitted([rm EXCEPT !.Clients = clients, !.GameState = gs2]),
                  sends  |-> pre \o << Snd(firstPlayer, PlayerMsg("PLAYER_JOINED", c), FALSE),
                                       Snd(c, RoomInfoMsg("ROOM_JOINED", r, c, symbol), FALSE) >>
                             \o Flatten([i \in DOMAIN SeqOfSet(clients) |-> LET d == SeqOfSet(clients)[i] IN <<Snd(d, GameStartMsg(gs2), FALSE)>>]),
                  unbind |-> {},
                  res    |-> "started"]
        ELSE [room |-> [rm EXCEPT !.Clients = clients], sends |-> pre, unbind |-> {}, res |-> "none"]

\* case client := <-r.Register
RegisterOutcome(rm, r, c) ==
    LET gs == rm.GameState IN
    IF c \in DOMAIN gs.PlayerSymbols
    THEN IF Cardinality(DOMAIN gs.PlayerSymbols) = 2
         THEN Reconnected(rm, r, c)
         ELSE NormalFlow(rm, r, c,
                  <<Snd(c, [RoomInfoMsg("ROOM_JOINED", r, c, gs.PlayerSymbols[c])
                               EXCEPT !.board = getBoardJSON(gs.Board)], FALSE)>>)
    ELSE NormalFlow(rm, r, c, <<>>)

\* UnregisterOutcome gone wrong: the leaver's symbol stays in PlayerSymbols.
UnregisterKeepsSymbol(rm, r, c) ==
    IF c \notin rm.Clients
    THEN [room |-> rm, sends |-> <<>>, unbind |-> {}, res |-> "absent"]
    ELSE LET clients == rm.Clients \ {c}
             gs      == rm.GameState
         IN  [room   |-> [rm EXCEPT !.Clients = clients,
                                    !.tClean = IF clients = {} THEN @ + 1 ELSE @],
              sends  |-> Flatten([i \in DOMAIN SeqOfSet(clients) |-> LET d == SeqOfSet(clients)[i] IN
                             << Snd(d, PlayerMsg("PLAYER_LEFT", c), FALSE),
                                Snd(d, GameOverMsg(gs, d, FALSE), FALSE) >>]),
              unbind |-> {c},
              res    |-> IF clients = {} THEN "emptied" ELSE "left"]

\* case client := <-r.Unregister
UnregisterOutcome(rm, r, c) ==
    IF c \notin rm.Clients
    THEN [room |-> rm, sends |-> <<>>, unbind |-> {}, res |-> "absent"]
    ELSE LET clients == rm.Clients \ {c}
             gs      == [rm.GameState EXCEPT !.PlayerSymbols = Del(@, c)]
         IN  [room   |-> [rm EXCEPT !.Clients = clients, !.GameState = gs,
                                    !.tClean = IF clients = {} THEN @ + 1 ELSE @],
              sends  |-> Flatten([i \in DOMAIN SeqOfSet(clients) |-> LET d == SeqOfSet(clients)[i] IN
                             << Snd(d, PlayerMsg("PLAYER_LEFT", c), FALSE),
                                Snd(d, GameOverMsg(gs, d, FALSE), FALSE) >>]),
              unbind |-> {c},
              res    |-> IF clients = {} THEN "emptied" ELSE "left"]

\* WinnerIds gone wrong: the loop stops at any id, whatever its symbol.
WinnerIdsAnyone(gs) == DOMAIN gs.PlayerSymbols \cup {Nil}

\* The ids the `for clientID, symbol := range PlayerSymbols` loop can stop at;
\* winner stays "" when no id holds the winning symbol.
WinnerIds(gs) ==
    LET ids == {d \in DOMAIN gs.PlayerSymbols : gs.PlayerSymbols[d] = gs.Winner}
    IN  IF ids = {} THEN {Nil} ELSE ids

\* `r.GameState.CurrentTurnSymbol != playerSymbol` rejects the move
TurnCheck(gs, playerSymbol) == gs.CurrentTurnSymbol = playerSymbol

\* case moveReq := <-r.ReceiveMove, `winner` being the id the winner loop found
MoveOutcome(rm, r, c, row, col, winner) ==
    LET gs == rm.GameState
        rejected(type, text, res) ==
            [room |-> rm, sends |-> <<Snd(c, ErrorMsg(type, text), TRUE)>>, unbind |-> {}, res |-> res]
    IN  IF c \notin DOMAIN gs.PlayerSymbols
        THEN rejected("ERROR_NOT_IN_GAME", "", "not_in_game")
        ELSE IF ~TurnCheck(gs, gs.PlayerSymbols[c])
        THEN rejected("ERROR_NOT_YOUR_TURN", "", "not_your_turn")
        ELSE LET am == ApplyMove(gs, gs.PlayerSymbols[c], row, col) IN
             IF am.err # ""
             THEN rejected("ERROR_INVALID_MOVE", am.err, "invalid_move")
             ELSE LET update == Flatten([i \in DOMAIN SeqOfSet(rm.Clients) |-> LET d == SeqOfSet(rm.Clients)[i] IN <<Snd(d, GameUpdateMsg(am.gs, row, col), FALSE)>>])
                  IN  IF am.gs.IsGameOver
                      THEN [room   |-> [rm EXCEPT !.GameState = am.gs, !.pc = "del"],
                            sends  |-> update \o Flatten([i \in DOMAIN SeqOfSet(rm.Clients) |-> LET d == SeqOfSet(rm.Clients)[i] IN
                                           <<Snd(d, GameOverMsg(am.gs, IF am.gs.Winner # "" THEN winner ELSE Nil,
                                                                am.gs.Winner = ""), FALSE)>>]),
                            unbind |-> {},
                            res    |-> "over"]
                      ELSE [room   |-> [rm EXCEPT !.GameState = am.gs],
                            sends  |-> update,
                            unbind |-> {},
                            res    |-> "moved"]

\* The deferred function of Room.Run
StopOutcome(rm, r) ==
    [room   |-> [rm EXCEPT !.Clients = {}, !.pc = "stopped"],
     sends  |-> Flatten([i \in DOMAIN SeqOfSet(rm.Clients) |-> LET d == SeqOfSet(rm.Clients)[i] IN <<Snd(d, Msg("ROOM_CLOSED"), FALSE)>>]),
     unbind |-> rm.Clients,
     res    |-> "stopped"]

\* Some message these sends put on a channel is of this type.
HasType(sent, type) == \E i \in DOMAIN sent : sent[i].msg.type = type

\* Hub.Run at its select.
HubIdle == [op |-> "idle", r |-> Nil, c |-> Nil]

NoCall == [sym |-> "", row |-> 0, col |-> 0, err |-> "none"]

\* A ReadPump that is not in Hub.ListRooms.
NoList == [on |-> FALSE, keys |-> {}, rows |-> <<>>, views |-> {}]

\* Hub.Rooms with every room's r.Clients, as it is at one moment.
View(hr, rms) == [r \in hr |-> rms[r].Clients]

\* listing after a step of the hub or of a room: one more view for every call
\* of Hub.ListRooms that is under way.
Observe(hr, rms) ==
    [c \in Clients |-> IF listing[c].on
                       THEN [listing[c] EXCEPT !.views = @ \cup {View(hr, rms)}]
                       ELSE listing[c]]

\* A send on a buffered channel with room puts the message behind the ones
\* that wait in it.
Enqueue(q, m) == Append(q, m)

\* fifo after a handler put `sent` on Send channels, one message after the
\* other: each is the next one its channel accepted.
RECURSIVE Logged(_, _)
Logged(f, sent) ==
    IF ~f.on \/ sent = <<>> THEN f
    ELSE LET d == Head(sent).to IN
         Logged([f EXCEPT !.acc[d] = @ + 1, !.q[d] = Enqueue(@, f.acc[d] + 1)], Tail(sent))

\* A handler runs while no channel has accepted MaxEvents messages.
InTime == fifo.on => \A c \in Clients : fifo.acc[c] < MaxEvents

\* fifo after `<-c.Send` took a message that nobody writes out
Took(c) == IF fifo.on THEN [fifo EXCEPT !.q[c] = Tail(@)] ELSE fifo

\* Drain gone wrong: the newest message is written first.
RECURSIVE DrainNewestFirst(_)
DrainNewestFirst(q) ==
    IF q = <<>> THEN <<>> ELSE <<q[Len(q)]>> \o DrainNewestFirst(SubSeq(q, 1, Len(q) - 1))

\* WritePump: `message := <-c.Send`, w.Write(message), then len(c.Send) times
\* `msg := <-c.Send`, w.Write(msg): what it writes, in the order it writes it.
RECURSIVE Drain(_)
Drain(q) == IF q = <<>> THEN <<>> ELSE <<Head(q)>> \o Drain(Tail(q))

Wrote(c) ==
    IF fifo.on THEN [fifo EXCEPT !.out[c] = @ \o Drain(fifo.q[c]), !.q[c] = <<>>] ELSE fifo

\* The server as main starts it, before any connection; cap is cap(c.Send),
\* and `on` tells whether the content of the Send channels is kept.
Start(cap, on) ==
    /\ listing = [c \in Clients |-> NoList]
    /\ fifo = [on  |-> on,
               acc |-> [c \in Clients |-> 0],
               q   |-> [c \in Clients |-> <<>>],
               out |-> [c \in Clients |-> <<>>]]
    /\ sendCap = cap
    /\ g = NewGameState
    /\ gCall = NoCall
    /\ conn = [c \in Clients |-> "new"]
    /\ cRoom = [c \in Clients |-> Nil]
    /\ mvRoom = [c \in Clients |-> Nil]
    /\ Send = [c \in Clients |-> 0]
    /\ sendClosed = [c \in Clients |-> FALSE]
    /\ hClients = {}
    /\ hRooms = {}
    /\ hubPc = HubIdle
    /\ nextRoom = 1
    /\ rooms = [r \in RoomIds |-> NoRoom]
    /\ crashed = FALSE
    /\ last = Step("init", Nil, Nil, "")

Boot(cap) == Start(cap, FALSE)

Init == Boot(SendCap)

\* A handler's outcome takes effect: its sends in order, the room it leaves, the
\* connections whose Room it set to nil. A plain send to a full buffer keeps the
\* handler waiting; a send to a closed channel ends the process.
Apply(r, outcome, step) ==
    \E out \in {outcome} : \E d \in {Delivered(out.sends)} :
    /\ ~d.blocked
    /\ InTime
    /\ last' = [step EXCEPT !.res = out.res, !.panic = d.panic, !.sent = d.sent]
    /\ crashed' = d.panic
    /\ IF d.panic
       THEN UNCHANGED <<listing, fifo, Send, rooms, cRoom>>
       ELSE /\ Send' = d.n
            /\ fifo' = Logged(fifo, d.sent)
            /\ rooms' = [rooms EXCEPT ![r] = [out.room EXCEPT !.msg = NoMsg,
                                                !.pc = IF @ = "busy" THEN "idle" ELSE @,
                                                !.sentOver = @ \/ HasType(d.sent, "GAME_OVER")]]
            /\ cRoom' = [c \in Clients |-> IF c \in out.unbind THEN Nil ELSE cRoom[c]]
            /\ listing' = Observe(hRooms, rooms')

\* ---------------------------------------------------------------- room loop
\* Room.Run takes a client from r.Register, which the hub is blocked sending.
RoomRecvRegister(r) ==
    /\ ~crashed
    /\ rooms[r].pc = "idle"
    /\ hubPc.op \in {"create", "join"}
    /\ hubPc.r = r
    /\ rooms' = [rooms EXCEPT ![r].pc = "busy",
                              ![r].msg = [NoMsg EXCEPT !.kind = "register", !.c = hubPc.c]]
    /\ hubPc' = IF hubPc.op = "create" THEN [hubPc EXCEPT !.op = "created"] ELSE HubIdle
    /\ last' = Tau
    /\ UNCHANGED <<listing, fifo, sendCap, mvRoom, g, gCall, conn, cRoom, Send, sendClosed, hClients, hRooms, nextRoom, crashed>>

\* Room.Run takes a client from r.Unregister, which the hub is blocked sending.
RoomRecvUnregister(r) ==
    /\ ~crashed
    /\ rooms[r].pc = "idle"
    /\ hubPc.op = "unreg"
    /\ hubPc.r = r
    /\ rooms' = [rooms EXCEPT ![r].pc = "busy",
                              ![r].msg = [NoMsg EXCEPT !.kind = "unregister", !.c = hubPc.c]]
    /\ hubPc' = HubIdle
    /\ last' = Tau
    /\ UNCHANGED <<listing, fifo, sendCap, mvRoom, g, gCall, conn, cRoom, Send, sendClosed, hClients, hRooms, nextRoom, crashed>>

RoomRegister(r) ==
    /\ ~crashed
    /\ rooms[r].pc = "busy"
    /\ rooms[r].msg.kind = "register"
    /\ Apply(r, RegisterOutcome(rooms[r], r, rooms[r].msg.c), Step("register", rooms[r].msg.c, r, ""))
    /\ UNCHANGED <<sendCap, mvRoom, g, gCall, conn, sendClosed, hClients, hRooms, hubPc, nextRoom>>

RoomUnregister(r) ==
    /\ ~crashed
    /\ rooms[r].pc = "busy"
    /\ rooms[r].msg.kind = "unregister"
    /\ Apply(r, UnregisterOutcome(rooms[r], r, rooms[r].msg.c), Step("unregister", rooms[r].msg.c, r, ""))
    /\ UNCHANGED <<sendCap, mvRoom, g, gCall, conn, sendClosed, hClients, hRooms, hubPc, nextRoom>>

\* The room handles the move it took from r.ReceiveMove; (row, col) is the
\* MoveData of the request, which nothing looked at before this point.
RoomMove(r, row, col) ==
    /\ ~crashed
    /\ rooms[r].pc = "busy"
    /\ rooms[r].msg.kind = "move"
    /\ \E winner \in WinnerIds(ApplyMove(rooms[r].GameState,
                                         Get(rooms[r].GameState.PlayerSymbols, rooms[r].msg.c),
                                         row, col).gs) :
          Apply(r, MoveOutcome(rooms[r], r, rooms[r].msg.c, row, col, winner),
                [Step("move", rooms[r].msg.c, r, "") EXCEPT !.row = row, !.col = col])
    /\ UNCHANGED <<sendCap, mvRoom, g, gCall, conn, sendClosed, hClients, hRooms, hubPc, nextRoom>>

\* case <-r.ctx.Done(): Run returns and its deferred function runs.
RoomStop(r) ==
    /\ ~crashed
    /\ rooms[r].pc = "idle"
    /\ rooms[r].ctxDone
    /\ Apply(r, StopOutcome(rooms[r], r), Step("stop", Nil, r, ""))
    /\ UNCHANGED <<sendCap, mvRoom, g, gCall, conn, sendClosed, hClients, hRooms, hubPc, nextRoom>>

\* `if len(r.Clients) == 0`, read by the timer goroutine when it wakes up
TimerFindsEmpty(rm) == Cardinality(rm.Clients) = 0

\* The grace timer goroutine wakes up and, finding the room empty, calls
\* Hub.DeleteRoom, where it waits for the hub. `joined` tells whether a join
\* was processed while it slept.
TimerFire(r, joined) ==
    /\ ~crashed
    /\ IF joined THEN rooms[r].tJoined > 0 ELSE rooms[r].tClean > 0
    /\ LET rm    == rooms[r]
           slept == IF joined THEN [rm EXCEPT !.tJoined = @ - 1] ELSE [rm EXCEPT !.tClean = @ - 1]
           empty == TimerFindsEmpty(rm)
       IN  /\ rooms' = [rooms EXCEPT ![r] =
                 IF ~empty THEN slept
                 ELSE IF joined THEN [slept EXCEPT !.dJoined = @ + 1]
                 ELSE [slept EXCEPT !.dClean = @ + 1]]
           /\ last' = Step(IF joined THEN "timer_joined" ELSE "timer", Nil, r,
                           IF empty THEN "delete" ELSE "noop")
    /\ UNCHANGED <<listing, fifo, sendCap, mvRoom, g, gCall, conn, cRoom, Send, sendClosed, hClients, hRooms, hubPc, nextRoom, crashed>>

\* ------------------------------------------------------------------- hub
\* `if len(mainHub.Clients) >= maxTotalClients`
AtCapacity(n, limit) == n >= limit

\* handleConnections up to `mainHub.Register <- c`: the request's goroutine
\* reads len(mainHub.Clients), and refuses the connection or goes on to hand
\* it to the hub.
AcceptCheck(c, limit) ==
    /\ ~crashed
    /\ conn[c] = "new"
    /\ \A d \in Clients : d < c => conn[d] # "new"
    /\ conn' = [conn EXCEPT ![c] = IF AtCapacity(Cardinality(hClients), limit) THEN "refused" ELSE "admitted"]
    /\ last' = Step("accept_check", c, Nil, IF AtCapacity(Cardinality(hClients), limit) THEN "refused" ELSE "admitted")
    /\ UNCHANGED <<listing, fifo, sendCap, mvRoom, g, gCall, cRoom, Send, sendClosed, hClients, hRooms, hubPc, nextRoom, rooms, crashed>>

\* case client := <-h.Register; handleConnections then starts the pumps.
HubRegister(c) ==
    /\ ~crashed
    /\ hubPc.op = "idle"
    /\ conn[c] = "admitted"
    /\ conn' = [conn EXCEPT ![c] = "open"]
    /\ hClients' = hClients \cup {c}
    /\ last' = Step("hub_register", c, Nil, "")
    /\ UNCHANGED <<listing, fifo, sendCap, mvRoom, g, gCall, cRoom, Send, sendClosed, hRooms, hubPc, nextRoom, rooms, crashed>>

\* handleConnections and the hub's Register case in one step, under a limit
\* that the connections do not reach: the hub takes the new client from
\* h.Register and the pumps start. Connections arrive in the order of their ids.
Accept(c) ==
    /\ ~crashed
    /\ hubPc.op = "idle"
    /\ conn[c] = "new"
    /\ \A d \in Clients : d < c => conn[d] # "new"
    /\ conn' = [conn EXCEPT ![c] = "open"]
    /\ hClients' = hClients \cup {c}
    /\ last' = Tau
    /\ UNCHANGED <<listing, fifo, sendCap, mvRoom, g, gCall, cRoom, Send, sendClosed, hRooms, hubPc, nextRoom, rooms, crashed>>

\* case client := <-h.Unregister, up to the send to the room: ReadPump's
\* deferred function handed the client over. `select { case <-sendChan:
\* default: close(sendChan) }` takes a buffered message when there is one and
\* closes the channel only when there is none.
HubUnregister(c) ==
    /\ ~crashed
    /\ hubPc.op = "idle"
    /\ conn[c] \in {"open", "leaving"}
    /\ mvRoom[c] = Nil
    /\ ~listing[c].on
    /\ conn' = [conn EXCEPT ![c] = "unreg"]
    /\ IF c \in hClients
       THEN /\ hClients' = hClients \ {c}
            /\ IF Send[c] > 0
               THEN /\ Send' = [Send EXCEPT ![c] = @ - 1]
                    /\ fifo' = Took(c)
                    /\ UNCHANGED sendClosed
               ELSE /\ sendClosed' = [sendClosed EXCEPT ![c] = TRUE]
                    /\ UNCHANGED <<fifo, Send>>
            /\ hubPc' = IF cRoom[c] # Nil THEN [op |-> "unreg", r |-> cRoom[c], c |-> c] ELSE HubIdle
            /\ last' = Step("hub_unregister", c, cRoom[c],
                            IF Send[c] > 0 THEN "took" ELSE IF sendClosed[c] THEN "was_closed" ELSE "closed")
       ELSE /\ last' = Step("hub_unregister", c, Nil, "unknown")
            /\ UNCHANGED <<fifo, hClients, Send, sendClosed, hubPc>>
    /\ UNCHANGED <<listing, sendCap, mvRoom, g, gCall, cRoom, hRooms, nextRoom, rooms, crashed>>

\* The same case in the steps it is made of, ReadPump's deferred function going
\* on beside it once UnregisterClient has returned. First the delete and the
\* select on sendChan: a buffered message is taken, a closed channel yields at
\* once, and on an open, empty channel the default is chosen.
HubUnregisterSelect(c) ==
    /\ ~crashed
    /\ hubPc.op = "idle"
    /\ conn[c] = "open"
    /\ mvRoom[c] = Nil
    /\ ~listing[c].on
    /\ c \in hClients
    /\ conn' = [conn EXCEPT ![c] = "unreg"]
    /\ hClients' = hClients \ {c}
    /\ IF Send[c] > 0
       THEN /\ Send' = [Send EXCEPT ![c] = @ - 1]
            /\ fifo' = Took(c)
       ELSE UNCHANGED <<fifo, Send>>
    /\ hubPc' = IF Send[c] = 0 /\ ~sendClosed[c] THEN [op |-> "close", r |-> Nil, c |-> c]
                ELSE IF cRoom[c] # Nil THEN [op |-> "unreg", r |-> cRoom[c], c |-> c]
                ELSE HubIdle
    /\ last' = Step("hub_unregister", c, cRoom[c],
                    IF Send[c] > 0 THEN "took" ELSE IF sendClosed[c] THEN "was_closed" ELSE "default")
    /\ UNCHANGED <<listing, sendCap, mvRoom, g, gCall, cRoom, sendClosed, hRooms, nextRoom, rooms, crashed>>

\* ... then close(sendChan), which panics on a closed channel, and
\* client.GetRoom() for the send to the room.
HubUnregisterClose ==
    /\ ~crashed
    /\ hubPc.op = "close"
    /\ crashed' = sendClosed[hubPc.c]
    /\ sendClosed' = [sendClosed EXCEPT ![hubPc.c] = TRUE]
    /\ hubPc' = IF sendClosed[hubPc.c] THEN hubPc
                ELSE IF cRoom[hubPc.c] # Nil THEN [op |-> "unreg", r |-> cRoom[hubPc.c], c |-> hubPc.c]
                ELSE HubIdle
    /\ last' = [Step("hub_close", hubPc.c, Nil, "") EXCEPT !.panic = sendClosed[hubPc.c]]
    /\ UNCHANGED <<listing, fifo, sendCap, mvRoom, g, gCall, conn, cRoom, Send, hClients, hRooms, nextRoom, rooms>>

\* case client := <-h.CreateRoomChan, up to the send to the new room's Register
HubCreate(c, r) ==
    /\ ~crashed
    /\ hubPc.op = "idle"
    /\ conn[c] = "open"
    /\ mvRoom[c] = Nil
    /\ ~listing[c].on
    /\ r = nextRoom
    /\ rooms' = [rooms EXCEPT ![nextRoom] = NewRoom]
    /\ hRooms' = hRooms \cup {nextRoom}
    /\ cRoom' = [cRoom EXCEPT ![c] = nextRoom]
    /\ hubPc' = [op |-> "create", r |-> nextRoom, c |-> c]
    /\ nextRoom' = nextRoom + 1
    /\ listing' = Observe(hRooms', rooms')
    /\ last' = Step("hub_create", c, nextRoom, "")
    /\ UNCHANGED <<fifo, sendCap, mvRoom, g, gCall, conn, Send, sendClosed, hClients, crashed>>

\* A send the hub makes with select and default.
HubSend(c, m, step) ==
    LET d == Delivered(<<Snd(c, m, FALSE)>>) IN
    /\ InTime
    /\ last' = [step EXCEPT !.panic = d.panic, !.sent = d.sent]
    /\ crashed' = d.panic
    /\ Send' = d.n
    /\ fifo' = Logged(fifo, d.sent)

\* The rest of the CreateRoomChan case: ROOM_CREATED to the creator.
HubCreated ==
    /\ ~crashed
    /\ hubPc.op = "created"
    /\ HubSend(hubPc.c, RoomInfoMsg("ROOM_CREATED", hubPc.r, hubPc.c, "X"),
               Step("hub_created", hubPc.c, hubPc.r, ""))
    /\ hubPc' = HubIdle
    /\ UNCHANGED <<listing, sendCap, mvRoom, g, gCall, conn, cRoom, sendClosed, hClients, hRooms, nextRoom, rooms>>

\* `if len(room.Clients) >= 2`
HubRoomFull(n) == n >= 2

\* case joinReq := <-h.JoinRoomChan. The hub reads len(room.Clients) while the
\* room's goroutine owns the map: it sees the map before or after any handler
\* of the room.
HubJoin(c, r) ==
    /\ ~crashed
    /\ hubPc.op = "idle"
    /\ conn[c] = "open"
    /\ mvRoom[c] = Nil
    /\ ~listing[c].on
    /\ IF r \notin hRooms
       THEN /\ HubSend(c, ErrorMsg("ERROR_ROOM_NOT_FOUND", ""), Step("hub_join", c, r, "room_not_found"))
            /\ UNCHANGED <<cRoom, hubPc>>
       ELSE IF HubRoomFull(Cardinality(rooms[r].Clients))
       THEN /\ HubSend(c, ErrorMsg("ERROR_ROOM_FULL", ""), Step("hub_join", c, r, "room_full"))
            /\ UNCHANGED <<cRoom, hubPc>>
       ELSE /\ cRoom' = [cRoom EXCEPT ![c] = r]
            /\ hubPc' = [op |-> "join", r |-> r, c |-> c]
            /\ last' = Step("hub_join", c, r, "forwarded")
            /\ UNCHANGED <<fifo, Send, crashed>>
    /\ UNCHANGED <<listing, sendCap, mvRoom, g, gCall, conn, sendClosed, hClients, hRooms, nextRoom, rooms>>

\* DeleteRoomHandler gone wrong: the test for the room's existence is inverted.
DeleteRoomInverted(r) ==
    IF r \notin hRooms
    THEN [rooms |-> [rooms EXCEPT ![r].ctxDone = TRUE], hRooms |-> hRooms \ {r}, res |-> "deleted"]
    ELSE [rooms |-> rooms, hRooms |-> hRooms, res |-> "unknown"]

\* case roomID := <-h.DeleteRoomChan
DeleteRoomHandler(r) ==
    IF r \in hRooms
    THEN [rooms |-> [rooms EXCEPT ![r].ctxDone = TRUE], hRooms |-> hRooms \ {r}, res |-> "deleted"]
    ELSE [rooms |-> rooms, hRooms |-> hRooms, res |-> "unknown"]

\* ... sent by the room's goroutine after a move that ended the game
HubDeleteFromRoom(r) ==
    /\ ~crashed
    /\ hubPc.op = "idle"
    /\ rooms[r].pc = "del"
    /\ LET h == DeleteRoomHandler(r) IN
       /\ rooms' = [h.rooms EXCEPT ![r].pc = "idle"]
       /\ hRooms' = h.hRooms
       /\ listing' = Observe(hRooms', rooms')
       /\ last' = Step("hub_delete_room", Nil, r, h.res)
    /\ UNCHANGED <<fifo, sendCap, mvRoom, g, gCall, conn, cRoom, Send, sendClosed, hClients, hubPc, nextRoom, crashed>>

\* ... sent by a grace timer goroutine
HubDeleteFromTimer(r, joined) ==
    /\ ~crashed
    /\ hubPc.op = "idle"
    /\ IF joined THEN rooms[r].dJoined > 0 ELSE rooms[r].dClean > 0
    /\ LET h == DeleteRoomHandler(r) IN
       /\ rooms' = IF joined THEN [h.rooms EXCEPT ![r].dJoined = @ - 1]
                             ELSE [h.rooms EXCEPT ![r].dClean = @ - 1]
       /\ hRooms' = h.hRooms
       /\ listing' = Observe(hRooms', rooms')
       /\ last' = Step(IF joined THEN "hub_delete_timer_joined" ELSE "hub_delete_timer", Nil, r, h.res)
    /\ UNCHANGED <<fifo, sendCap, mvRoom, g, gCall, conn, cRoom, Send, sendClosed, hClients, hubPc, nextRoom, crashed>>

\* main after the interrupt signal: cancel() ends the context of every
\* connection and mainHub.Close() the context of the hub and, derived from it,
\* of every room; Hub.Run, at its select, takes ctx.Done() and returns (its
\* deferred function calls Close on the rooms of h.Rooms once more).
Shutdown ==
    /\ ~crashed
    /\ hubPc.op = "idle"
    /\ hubPc' = [op |-> "stopped", r |-> Nil, c |-> Nil]
    /\ rooms' = [r \in RoomIds |-> IF rooms[r].pc = "none" THEN rooms[r]
                                   ELSE [rooms[r] EXCEPT !.ctxDone = TRUE]]
    /\ listing' = Observe(hRooms, rooms')
    /\ last' = Step("shutdown", Nil, Nil, "")
    /\ UNCHANGED <<fifo, sendCap, mvRoom, g, gCall, conn, cRoom, Send, sendClosed, hClients, hRooms, nextRoom, crashed>>

\* ---------------------------------------------------------------- clients
\* ReadPump, case "MAKE_MOVE" with c.Room nil: ERROR_NOT_IN_ROOM, which
\* ReadPump puts on its own Send.
ClientMoveNoRoom(c) ==
    /\ ~crashed
    /\ conn[c] = "open"
    /\ mvRoom[c] = Nil
    /\ ~listing[c].on
    /\ cRoom[c] = Nil
    /\ LET d == Delivered(<<Snd(c, ErrorMsg("ERROR_NOT_IN_ROOM", ""), TRUE)>>) IN
       /\ ~d.blocked
       /\ InTime
       /\ Send' = d.n
       /\ fifo' = Logged(fifo, d.sent)
       /\ crashed' = d.panic
       /\ last' = [Step("client_move", c, Nil, "not_in_room") EXCEPT !.panic = d.panic, !.sent = d.sent]
    /\ UNCHANGED <<listing, sendCap, mvRoom, g, gCall, conn, cRoom, sendClosed, hClients, hRooms, hubPc, nextRoom, rooms>>

\* ReadPump, case "MAKE_MOVE" with a room: `roomObj.ReceiveMove <- playerMove`,
\* which Room.Run, being at its select, takes at once.
ClientMove(c) ==
    /\ ~crashed
    /\ conn[c] = "open"
    /\ mvRoom[c] = Nil
    /\ ~listing[c].on
    /\ cRoom[c] # Nil
    /\ rooms[cRoom[c]].pc = "idle"
    /\ rooms' = [rooms EXCEPT ![cRoom[c]].pc = "busy",
                              ![cRoom[c]].msg = [kind |-> "move", c |-> c]]
    /\ last' = Tau
    /\ UNCHANGED <<listing, fifo, sendCap, mvRoom, g, gCall, conn, cRoom, Send, sendClosed, hClients, hRooms, hubPc, nextRoom, crashed>>

\* The same while Room.Run is not at its select: ReadPump has read c.Room and
\* stays blocked in the send, whatever becomes of c.Room meanwhile.
ClientMoveWait(c) ==
    /\ ~crashed
    /\ conn[c] = "open"
    /\ mvRoom[c] = Nil
    /\ ~listing[c].on
    /\ cRoom[c] # Nil
    /\ rooms[cRoom[c]].pc # "idle"
    /\ mvRoom' = [mvRoom EXCEPT ![c] = cRoom[c]]
    /\ last' = Tau
    /\ UNCHANGED <<listing, fifo, sendCap, g, gCall, conn, cRoom, Send, sendClosed, hClients, hRooms, hubPc, nextRoom, rooms, crashed>>

\* Room.Run, back at its select, takes the move a blocked ReadPump is sending.
RoomRecvMove(r, c) ==
    /\ ~crashed
    /\ rooms[r].pc = "idle"
    /\ mvRoom[c] = r
    /\ rooms' = [rooms EXCEPT ![r].pc = "busy", ![r].msg = [kind |-> "move", c |-> c]]
    /\ mvRoom' = [mvRoom EXCEPT ![c] = Nil]
    /\ last' = Tau
    /\ UNCHANGED <<listing, fifo, sendCap, g, gCall, conn, cRoom, Send, sendClosed, hClients, hRooms, hubPc, nextRoom, crashed>>

\* ReadPump, case "LIST_ROOMS": Hub.ListRooms runs on the connection's own
\* goroutine. `roomsList := make(..., len(h.Rooms))` and the start of the range
\* over h.Rooms.
ListStart(c) ==
    /\ ~crashed
    /\ conn[c] = "open"
    /\ mvRoom[c] = Nil
    /\ ~listing[c].on
    /\ listing' = [listing EXCEPT ![c] =
                      [on |-> TRUE, keys |-> hRooms, rows |-> <<>>, views |-> {View(hRooms, rooms)}]]
    /\ last' = Tau
    /\ UNCHANGED <<fifo, sendCap, mvRoom, g, gCall, conn, cRoom, Send, sendClosed, hClients, hRooms, hubPc, nextRoom, rooms, crashed>>

\* `isFull := len(playerIDs) >= 2`
ListIsFull(playerIDs) == Cardinality(playerIDs) >= 2

\* One turn of the range: room.GetPlayerIDs() reads r.Clients and the RoomInfo
\* is appended. The hub writes h.Rooms meanwhile: the range yields the keys it
\* started from and may yield one that was added since.
ListRange(c, r) ==
    /\ ~crashed
    /\ listing[c].on
    /\ r \in (listing[c].keys \cup hRooms) \ DOMAIN listing[c].rows
    /\ listing' = [listing EXCEPT ![c].rows =
                      Put(@, r, [players |-> rooms[r].Clients, isFull |-> ListIsFull(rooms[r].Clients)])]
    /\ last' = Tau
    /\ UNCHANGED <<fifo, sendCap, mvRoom, g, gCall, conn, cRoom, Send, sendClosed, hClients, hRooms, hubPc, nextRoom, rooms, crashed>>

\* The range is over (a key deleted since it began need not have come up):
\* `client.GetSendChannel() <- responseBytes`, a plain send of ROOM_LIST.
ListSend(c) ==
    /\ ~crashed
    /\ listing[c].on
    /\ (listing[c].keys \cap hRooms) \subseteq DOMAIN listing[c].rows
    /\ LET d == Delivered(<<Snd(c, [Msg("ROOM_LIST") EXCEPT !.rooms = listing[c].rows], TRUE)>>) IN
       /\ ~d.blocked
       /\ InTime
       /\ Send' = d.n
       /\ fifo' = Logged(fifo, d.sent)
       /\ crashed' = d.panic
       /\ last' = [Step("list", c, Nil, "") EXCEPT !.panic = d.panic, !.sent = d.sent]
    /\ listing' = [listing EXCEPT ![c] = NoList]
    /\ UNCHANGED <<sendCap, mvRoom, g, gCall, conn, cRoom, sendClosed, hClients, hRooms, hubPc, nextRoom, rooms>>

\* ReadPump returns: Conn.ReadMessage failed, the peer being gone or WritePump
\* having closed Conn on its way out. The deferred function calls
\* c.Hub.UnregisterClient(c) and waits in `h.Unregister <- client` for the hub.
ReadPumpReturn(c) ==
    /\ ~crashed
    /\ conn[c] = "open"
    /\ mvRoom[c] = Nil
    /\ ~listing[c].on
    /\ conn' = [conn EXCEPT ![c] = "leaving"]
    /\ last' = Step("readpump_return", c, cRoom[c], "")
    /\ UNCHANGED <<listing, fifo, sendCap, mvRoom, g, gCall, cRoom, Send, sendClosed, hClients, hRooms, hubPc, nextRoom, rooms, crashed>>

\* ReadPump's deferred function after UnregisterClient returned: the select
\* that decides whether to close c.Send.
ReadPumpCheck(c) ==
    /\ ~crashed
    /\ conn[c] = "unreg"
    /\ IF Send[c] > 0
       THEN /\ Send' = [Send EXCEPT ![c] = @ - 1]
            /\ fifo' = Took(c)
            /\ conn' = [conn EXCEPT ![c] = "closing"]
       ELSE /\ conn' = [conn EXCEPT ![c] = IF sendClosed[c] THEN "closed" ELSE "closing"]
            /\ UNCHANGED <<fifo, Send>>
    /\ last' = Tau
    /\ UNCHANGED <<listing, sendCap, mvRoom, g, gCall, cRoom, sendClosed, hClients, hRooms, hubPc, nextRoom, rooms, crashed>>

\* ... and the close(c.Send) it decided on: closing a closed channel panics.
ReadPumpClose(c) ==
    /\ ~crashed
    /\ conn[c] = "closing"
    /\ conn' = [conn EXCEPT ![c] = "closed"]
    /\ crashed' = sendClosed[c]
    /\ sendClosed' = [sendClosed EXCEPT ![c] = TRUE]
    /\ last' = [Step("readpump_close", c, Nil, "") EXCEPT !.panic = sendClosed[c]]
    /\ UNCHANGED <<listing, fifo, sendCap, mvRoom, g, gCall, cRoom, Send, hClients, hRooms, hubPc, nextRoom, rooms>>

\* WritePump writes out the message it received and the len(c.Send) behind it.
WritePump(c) ==
    /\ ~crashed
    /\ conn[c] # "new"
    /\ Send[c] > 0
    /\ Send' = [Send EXCEPT ![c] = 0]
    /\ fifo' = Wrote(c)
    /\ last' = Tau
    /\ UNCHANGED <<listing, sendCap, mvRoom, g, gCall, conn, cRoom, sendClosed, hClients, hRooms, hubPc, nextRoom, rooms, crashed>>

\* Connections that create rooms and join them.
Housing(C, R) ==
    \/ \E c \in C, r \in R : HubCreate(c, r)
    \/ HubCreated
    \/ \E c \in C, r \in R : HubJoin(c, r)
    \/ \E r \in R : RoomRecvRegister(r)
    \/ \E r \in R : RoomRegister(r)
    \/ \E c \in C : WritePump(c)

\* Connections that arrive, create rooms and join them.
Arrive(C, R) ==
    \/ \E c \in C : Accept(c)
    \/ Housing(C, R)

\* Connections that send LIST_ROOMS.
Lists(C, R) ==
    \/ \E c \in C : ListStart(c)
    \/ \E c \in C, r \in R : ListRange(c, r)
    \/ \E c \in C : ListSend(c)

\* Connections that arrive under the limit on connections.
Door(C, limit) ==
    \/ \E c \in C : AcceptCheck(c, limit)
    \/ \E c \in C : HubRegister(c)

\* Connections that terminate.
Depart(C, R) ==
    \/ \E c \in C : HubUnregister(c)
    \/ \E r \in R : RoomRecvUnregister(r)
    \/ \E r \in R : RoomUnregister(r)
    \/ \E c \in C : ReadPumpCheck(c)
    \/ \E c \in C : ReadPumpClose(c)

\* Connections that create, join and leave rooms.
Lobby(C, R) == Arrive(C, R) \/ Depart(C, R)

\* The grace timers of emptied rooms elapse.
Timers(R) ==
    \/ \E r \in R, joined \in BOOLEAN : TimerFire(r, joined)
    \/ \E r \in R, joined \in BOOLEAN : HubDeleteFromTimer(r, joined)
    \/ \E r \in R : RoomStop(r)

\* Connections that send MAKE_MOVE, connection c with coordinates from aim[c].
Moving(C, R, aim) ==
    \/ \E c \in C : ClientMoveNoRoom(c)
    \/ \E c \in C : ClientMove(c)
    \/ \E r \in R, c \in C : rooms[r].msg.c = c /\ \E m \in aim[c] : RoomMove(r, m[1], m[2])

\* ... and the room's request to the hub after a move that ended the game.
PlayAt(C, R, aim) ==
    \/ Moving(C, R, aim)
    \/ \E r \in R : HubDeleteFromRoom(r)

Play(C, R) == PlayAt(C, R, [c \in C |-> Moves])

\* Connections that send MAKE_MOVE while the room's loop is busy.
Stalled(C, R) ==
    \/ \E c \in C : ClientMoveWait(c)
    \/ \E r \in R, c \in C : RoomRecvMove(r, c)

Next ==
    \/ Lobby(Clients, RoomIds)
    \/ Timers(RoomIds)
    \/ Play(Clients, RoomIds)
    \/ Stalled(Clients, RoomIds)
    \/ Lists(Clients, RoomIds)

Spec == Init /\ [][Next]_vars

\* Three connections and one room, no moves.
NextLobby == Lobby(1..LobbyClients, 1..LobbyRooms) \/ Timers(1..LobbyRooms)

SpecLobby == Init /\ [][NextLobby]_vars

\* Two connections and two rooms, no moves.
NextRooms == Lobby(1..DuoClients, 1..DuoRooms) \/ Timers(1..DuoRooms)

SpecRooms == Init /\ [][NextRooms]_vars

\* Two connections playing in one room.
NextPlay ==
    \/ Lobby(1..PlayClients, 1..PlayRooms)
    \/ Timers(1..PlayRooms)
    \/ Play(1..PlayClients, 1..PlayRooms)

SpecPlay == Init /\ [][NextPlay]_vars

\* Two connections and one room, no moves, queues of three messages.
NextTalk == Lobby(1..TalkClients, 1..TalkRooms) \/ Timers(1..TalkRooms)

SpecTalk == Boot(TalkCap) /\ [][NextTalk]_vars

\* Three connections around one room, sending MAKE_MOVE (off the grid, so that
\* the grid stays empty) also while the room's loop is busy.
NextCrowd ==
    \/ Lobby(1..CrowdClients, 1..CrowdRooms)
    \/ Moving(1..CrowdClients, 1..CrowdRooms, [c \in 1..CrowdClients |-> {<<3, 0>>}])
    \/ Stalled(1..CrowdClients, 1..CrowdRooms)

SpecCrowd == Boot(CrowdCap) /\ [][NextCrowd]_vars

\* Two connections that play a game to its end and stay connected: connection
\* c aims at the cells MatchCells[c], which leave room for a win and for a draw.
MatchAim == [c \in 1..MatchClients |-> {<<i \div 3, i % 3>> : i \in MatchCells(c)}]

NextMatch ==
    \/ Arrive(1..MatchClients, 1..MatchRooms)
    \/ PlayAt(1..MatchClients, 1..MatchRooms, MatchAim)
    \/ \E r \in 1..MatchRooms : RoomStop(r)

SpecMatch == Boot(MatchCap) /\ [][NextMatch]_vars

\* Two connections around one room, with the content of the Send channels and
\* of what WritePump wrote kept, until a Send has accepted MaxEvents messages.
NextFifo ==
    \/ Lobby(1..FifoClients, 1..FifoRooms)
    \/ Moving(1..FifoClients, 1..FifoRooms, [c \in 1..FifoClients |-> {<<0, c>>, <<3, 0>>}])

SpecFifo == Start(FifoCap, TRUE) /\ [][NextFifo]_vars

\* Two connections that stay connected and play towards a line of X in the
\* first row: connection c aims at the cells EndCells(c).
EndCells(c) == IF c = 1 THEN {0, 1, 2} ELSE {3, 4}
EndAim == [c \in 1..EndClients |-> {<<i \div 3, i % 3>> : i \in EndCells(c)}]

NextEnd ==
    \/ Arrive(1..EndClients, 1..EndRooms)
    \/ PlayAt(1..EndClients, 1..EndRooms, EndAim)
    \/ \E r \in 1..EndRooms : RoomStop(r)

\* The handler room r's loop is in, which runs to its end.
RoomHandler(r, C, aim) ==
    \/ RoomRegister(r)
    \/ \E c \in C : rooms[r].msg.c = c /\ \E m \in aim[c] : RoomMove(r, m[1], m[2])

\* The Go scheduler runs every goroutine that can run, and a select takes a
\* ready case at random, so a case that is ready again and again is taken:
\* the hub finishes the case it is in and takes from DeleteRoomChan, a room's
\* loop takes from Register, finishes its handler and returns once its context
\* is done, and each write pump drains its channel. A handler waiting in a
\* plain send on a full channel is handed the slot a receive frees.
SpecEnd ==
    /\ Boot(EndCap)
    /\ [][NextEnd]_vars
    /\ WF_vars(HubCreated)
    /\ \A r \in 1..EndRooms : SF_vars(HubDeleteFromRoom(r))
    /\ \A r \in 1..EndRooms : SF_vars(RoomRecvRegister(r))
    /\ \A r \in 1..EndRooms : SF_vars(RoomHandler(r, 1..EndClients, EndAim))
    /\ \A r \in 1..EndRooms : SF_vars(RoomStop(r))
    /\ \A c \in 1..EndClients : WF_vars(WritePump(c))

\* Two connections that come to and leave one room, each aiming at one cell of
\* its own, with queues that hold the two messages a departure sends.
OverAim == [c \in 1..OverClients |-> {<<0, c>>}]

NextOver ==
    \/ Lobby(1..OverClients, 1..OverRooms)
    \/ Moving(1..OverClients, 1..OverRooms, OverAim)

SpecOver == Boot(OverCap) /\ [][NextOver]_vars

\* Connections that terminate, the hub's Unregister case taken step by step.
DepartStepwise(C, R) ==
    \/ \E c \in C : HubUnregisterSelect(c)
    \/ HubUnregisterClose
    \/ \E r \in R : RoomRecvUnregister(r)
    \/ \E r \in R : RoomUnregister(r)
    \/ \E c \in C : ReadPumpCheck(c)
    \/ \E c \in C : ReadPumpClose(c)

\* Two connections that come to and leave one room, no moves.
NextClose ==
    \/ Arrive(1..CloseClients, 1..CloseRooms)
    \/ DepartStepwise(1..CloseClients, 1..CloseRooms)

SpecClose == Boot(CloseCap) /\ [][NextClose]_vars

\* Two connections that play towards a line of X in the first row, send moves
\* also while the room's loop is busy, and terminate when they like.
StaleAim == [c \in 1..StaleClients |-> {<<i \div 3, i % 3>> : i \in EndCells(c)}]

NextStale ==
    \/ Lobby(1..StaleClients, 1..StaleRooms)
    \/ PlayAt(1..StaleClients, 1..StaleRooms, StaleAim)
    \/ Stalled(1..StaleClients, 1..StaleRooms)
    \/ \E r \in 1..StaleRooms : RoomStop(r)

SpecStale == Boot(StaleCap) /\ [][NextStale]_vars

\* Two connections that come to one room and whose read pumps return, no moves.
NextLeave ==
    \/ Arrive(1..LeaveClients, 1..LeaveRooms)
    \/ \E c \in 1..LeaveClients : ReadPumpReturn(c)
    \/ Depart(1..LeaveClients, 1..LeaveRooms)
    \/ Timers(1..LeaveRooms)

\* The hub takes from h.Unregister a connection that waits there.
HubTakesLeaver(c) == conn[c] = "leaving" /\ HubUnregister(c)

\* With the fairness of SpecEnd, for the steps of this specification: the hub
\* takes from h.Unregister and from DeleteRoomChan and finishes the case it is
\* in, a room's loop takes from Register and Unregister, finishes its handler
\* and returns once its context is done, a grace timer wakes up, and the
\* pumps of a connection go on.
SpecLeave ==
    /\ Boot(LeaveCap)
    /\ [][NextLeave]_vars
    /\ WF_vars(HubCreated)
    /\ \A c \in 1..LeaveClients : SF_vars(HubTakesLeaver(c))
    /\ \A r \in 1..LeaveRooms, joined \in BOOLEAN : SF_vars(HubDeleteFromTimer(r, joined))
    /\ \A r \in 1..LeaveRooms, joined \in BOOLEAN : WF_vars(TimerFire(r, joined))
    /\ \A r \in 1..LeaveRooms : SF_vars(RoomRecvRegister(r))
    /\ \A r \in 1..LeaveRooms : SF_vars(RoomRecvUnregister(r))
    /\ \A r \in 1..LeaveRooms : SF_vars(RoomRegister(r) \/ RoomUnregister(r))
    /\ \A r \in 1..LeaveRooms : SF_vars(RoomStop(r))
    /\ \A c \in 1..LeaveClients : WF_vars(WritePump(c))
    /\ \A c \in 1..LeaveClients : WF_vars(ReadPumpCheck(c) \/ ReadPumpClose(c))

\* Two connections around one room, no moves, and the server shut down.
NextShut ==
    \/ Arrive(1..ShutClients, 1..ShutRooms)
    \/ \E c \in 1..ShutClients : ReadPumpReturn(c)
    \/ Depart(1..ShutClients, 1..ShutRooms)
    \/ Timers(1..ShutRooms)
    \/ Shutdown

SpecShut == Boot(ShutCap) /\ [][NextShut]_vars

\* Two connections around one room that send LIST_ROOMS, no moves.
NextList ==
    \/ Lobby(1..ListClients, 1..ListRooms)
    \/ Timers(1..ListRooms)
    \/ Lists(1..ListClients, 1..ListRooms)

SpecList == Boot(ListCap) /\ [][NextList]_vars

\* Two connections that arrive while the server admits one, around one room.
NextDoor ==
    \/ Door(1..DoorClients, maxTotalClients)
    \/ Housing(1..DoorClients, 1..DoorRooms)
    \/ Depart(1..DoorClients, 1..DoorRooms)

SpecDoor == Init /\ [][NextDoor]_vars

\* ----------------------------------------------------- the engine by itself
InitGame == Init

CallApplyMove(sym, row, col) ==
    LET r == ApplyMove(g, sym, row, col) IN
    /\ g' = r.gs
    /\ gCall' = [sym |-> sym, row |-> row, col |-> col, err |-> r.err]
    /\ UNCHANGED srvVars

NextGame == \E sym \in Symbols, row \in Coords, col \in Coords : CallApplyMove(sym, row, col)

SpecGame == InitGame /\ [][NextGame]_vars

\* --------------------------------------------------------------- properties
Roles(r) == rooms[r].GameState.PlayerSymbols
RoleHolders(r) == DOMAIN Roles(r)
ErrorTypes == {"ERROR_NOT_IN_GAME", "ERROR_NOT_YOUR_TURN", "ERROR_INVALID_MOVE"}
\* The places in a step's sends where a message of this type goes to d.
SentAt(step, d, type) ==
    {i \in 1..Len(step.sent) : step.sent[i].to = d /\ step.sent[i].msg.type = type}
\* The rows, columns and diagonals of the grid.
Lines ==
    {{<<i, j>> : j \in Idx} : i \in Idx} \cup {{<<i, j>> : i \in Idx} : j \in Idx}
        \cup {{<<i, i>> : i \in Idx}, {<<i, 2 - i>> : i \in Idx}}
HasLine(board, M) == \E line \in Lines : \A p \in line : board[p[1]][p[2]] = M
Full(board) == \A i \in Idx, j \in Idx : board[i][j] # ""

\* The messages a step put on d's Send, in order.
SentTo(step, d) ==
    LET mine == SelectSeq(step.sent, LAMBDA s : s.to = d)
    IN  [i \in DOMAIN mine |-> mine[i].msg]

\* C1: in every room at most 2 connection ids hold a symbol; when the room
\* handles the Register of an id without a symbol while two ids hold symbols,
\* it takes its room_full branch, and the joiner ends with no symbol and
\* outside r.Clients; a join the hub answers with room_full changes no room.
C1_ThirdJoinerRejected ==
    [][ /\ \A r \in RoomIds : Cardinality(DOMAIN rooms'[r].GameState.PlayerSymbols) <= 2
        /\ (last'.op = "register" /\ Cardinality(RoleHolders(last'.r)) = 2
               /\ last'.c \notin RoleHolders(last'.r))
           => /\ last'.res = "room_full"
              /\ last'.c \notin rooms'[last'.r].Clients
              /\ last'.c \notin DOMAIN rooms'[last'.r].GameState.PlayerSymbols
        /\ (last'.op = "hub_join" /\ last'.r \in hRooms /\ Cardinality(RoleHolders(last'.r)) = 2
               /\ last'.c \notin RoleHolders(last'.r))
           => /\ last'.res = "room_full"
              /\ rooms' = rooms /\ cRoom' = cRoom
      ]_vars

\* C1 witness: the room itself turned a third id away while two held symbols.
C1_Witness ==
    /\ last.op = "register" /\ last.res = "room_full" /\ ~last.panic
    /\ Cardinality(RoleHolders(last.r)) = 2
    /\ last.c \notin rooms[last.r].Clients
    /\ SentAt(last, last.c, "ERROR_ROOM_FULL") # {}

\* C2: once a room's game is over, every move the room handles is rejected by
\* the engine's game-over check, and board, turn, winner and draw flag stay as
\* they are.
C2_TerminalIsFinal ==
    [][ \A r \in RoomIds : rooms[r].GameState.IsGameOver =>
           /\ rooms'[r].GameState.Board = rooms[r].GameState.Board
           /\ rooms'[r].GameState.CurrentTurnSymbol = rooms[r].GameState.CurrentTurnSymbol
           /\ rooms'[r].GameState.Winner = rooms[r].GameState.Winner
           /\ rooms'[r].GameState.IsDraw = rooms[r].GameState.IsDraw
           /\ rooms'[r].GameState.IsGameOver
           /\ (last'.op = "move" /\ last'.r = r) => last'.res = "invalid_move"
      ]_vars

\* C3: over any sequence of ApplyMove calls from NewGameState a marked cell
\* keeps its mark, and a call aimed at a marked cell returns an error and
\* leaves the game state as it was.
C3_MarkedOnce ==
    [][ /\ \A i \in Idx, j \in Idx : g.Board[i][j] # "" => g'.Board[i][j] = g.Board[i][j]
        /\ (gCall'.row \in Idx /\ gCall'.col \in Idx /\ g.Board[gCall'.row][gCall'.col] # "")
           => (gCall'.err # "" /\ g' = g)
      ]_vars

\* C3 witness: a call that passed the game-over and turn checks was turned
\* away at a marked cell.
C3_Witness == gCall.err = "occupied" /\ g.Board[gCall.row][gCall.col] # ""

\* C4: after an ApplyMove call by mark M that is accepted and does not end the
\* game, CurrentTurnSymbol is the other mark.
C4_TurnAlternates ==
    [][ (gCall'.err = "" /\ ~g'.IsGameOver)
           => /\ g'.CurrentTurnSymbol \in Symbols \ {gCall'.sym}
              /\ g.CurrentTurnSymbol = gCall'.sym
      ]_vars

\* C4 witness: O moved, the game goes on, and it is X's turn.
C4_Witness ==
    /\ gCall.err = "" /\ gCall.sym = "O" /\ ~g.IsGameOver
    /\ g.Board[gCall.row][gCall.col] = "O" /\ g.CurrentTurnSymbol = "X"

\* C5: when the room handles the Register of an id that holds a symbol in it,
\* the id holds the same symbol afterwards.
C5_RoleStable ==
    [][ (last'.op = "register" /\ last'.c \in RoleHolders(last'.r))
           => /\ last'.c \in DOMAIN rooms'[last'.r].GameState.PlayerSymbols
              /\ rooms'[last'.r].GameState.PlayerSymbols[last'.c] = Roles(last'.r)[last'.c]
      ]_vars

\* C6: a JOIN_ROOM for a room of the hub by an id that holds a symbol in that
\* room is never answered with room_full.
C6_RejoinAdmitted ==
    [][ (last'.op = "hub_join" /\ last'.r \in hRooms /\ last'.c \in RoleHolders(last'.r))
           => last'.res # "room_full"
      ]_vars

\* C7: a grace timer during whose sleep the room processed a join does not
\* ask the hub to delete the room, and a timer that finds r.Clients non-empty
\* asks for nothing.
C7_JoinVoidsTimer ==
    [][ /\ last'.op = "timer_joined" => last'.res = "noop"
        /\ (last'.op \in {"timer", "timer_joined"} /\ rooms[last'.r].Clients # {})
           => last'.res = "noop"
      ]_vars

\* C8: no connection is in r.Clients or PlayerSymbols of two rooms of the hub
\* whose loops are running.
Live(r) == r \in hRooms /\ rooms[r].pc \notin {"none", "stopped"}
MemberOf(c, r) == c \in rooms[r].Clients \/ c \in RoleHolders(r)
C8_OneRoomAtATime ==
    \A c \in Clients : \A r1 \in RoomIds, r2 \in RoomIds :
        (r1 # r2 /\ Live(r1) /\ Live(r2)) => ~(MemberOf(c, r1) /\ MemberOf(c, r2))

\* C9: a move the room rejects (not the mover's turn, or refused by
\* ApplyMove) puts exactly one error message on the mover's Send, nothing on
\* any other Send, and leaves the game state as it was.
C9_RejectionToMoverOnly ==
    [][ (last'.op = "move" /\ last'.res \in {"not_your_turn", "invalid_move"})
           => /\ ~last'.panic
              /\ Len(last'.sent) = 1
              /\ last'.sent[1].to = last'.c
              /\ last'.sent[1].msg.type \in ErrorTypes
              /\ Send' = [Send EXCEPT ![last'.c] = @ + 1]
              /\ rooms'[last'.r].GameState = rooms[last'.r].GameState
      ]_vars

\* C10: a move the room accepts puts GAME_UPDATE with the new board, the new
\* turn and the coordinates on the Send of every member that has room for it;
\* GAME_OVER, when the game ended, comes after that GAME_UPDATE on the same
\* Send, and the room then waits in DeleteRoom.
C10_UpdateThenOver ==
    [][ (last'.op = "move" /\ last'.res \in {"moved", "over"})
           => /\ ~last'.panic
              /\ \A d \in rooms[last'.r].Clients :
                    /\ Send[d] < sendCap =>
                          \E i \in SentAt(last', d, "GAME_UPDATE") :
                              last'.sent[i].msg =
                                  GameUpdateMsg(rooms'[last'.r].GameState, last'.row, last'.col)
                    /\ \A j \in SentAt(last', d, "GAME_OVER") :
                          \E i \in SentAt(last', d, "GAME_UPDATE") : i < j
              /\ last'.res = "over" <=> rooms'[last'.r].pc = "del"
      ]_vars

\* C11: when the room handles the Unregister of one of its two members, the
\* handler completes and what it sends goes to the member that stays:
\* PLAYER_LEFT naming the one that left, then GAME_OVER with the staying
\* member's id as winner and isDraw false (both of them when the queue has room
\* for two messages).
C11_LeaverAnnounced ==
    [][ (last'.op = "unregister" /\ last'.c \in rooms[last'.r].Clients
            /\ Cardinality(rooms[last'.r].Clients) = 2)
        => LET d == CHOOSE x \in rooms[last'.r].Clients : x # last'.c IN
           /\ ~last'.panic
           /\ \A i \in 1..Len(last'.sent) : last'.sent[i].to = d
           /\ Send[d] + 2 <= sendCap =>
                 /\ Len(last'.sent) = 2
                 /\ last'.sent[1].msg = PlayerMsg("PLAYER_LEFT", last'.c)
                 /\ last'.sent[2].msg.type = "GAME_OVER"
                 /\ last'.sent[2].msg.winner = d
                 /\ ~last'.sent[2].msg.isDraw
           /\ \A i \in SentAt(last', d, "PLAYER_LEFT"), j \in SentAt(last', d, "GAME_OVER") : i < j
      ]_vars

\* C12: when the room handles the Register of a second connection while its
\* only member f holds X, the handler completes and starts the game: f is sent
\* PLAYER_JOINED naming the joiner, the joiner ROOM_JOINED with symbol O, and
\* after that each of them GAME_START with the empty grid and turn X (all of
\* them when the queues have room for two messages).
C12_SecondJoinStarts ==
    [][ (last'.op = "register"
            /\ \E f \in Clients \ {last'.c} :
                   /\ rooms[last'.r].Clients = {f}
                   /\ RoleHolders(last'.r) = {f}
                   /\ Roles(last'.r)[f] = "X")
        => LET r == last'.r
               c == last'.c
               f == CHOOSE x \in rooms[r].Clients : TRUE
               isStart(m) == /\ m.type = "GAME_START"
                             /\ m.board = getBoardJSON(EmptyBoard)
                             /\ m.turn = "X"
           IN  /\ ~last'.panic
               /\ last'.res = "started"
               /\ (Send[f] + 2 <= sendCap /\ Send[c] + 2 <= sendCap) =>
                      /\ Len(SentTo(last', f)) = 2 /\ Len(SentTo(last', c)) = 2
                      /\ SentTo(last', f)[1] = PlayerMsg("PLAYER_JOINED", c)
                      /\ SentTo(last', c)[1] = RoomInfoMsg("ROOM_JOINED", r, c, "O")
                      /\ isStart(SentTo(last', f)[2]) /\ isStart(SentTo(last', c)[2])
               /\ \A d \in {f, c} : \A j \in SentAt(last', d, "GAME_START") :
                      /\ isStart(last'.sent[j].msg)
                      /\ \A i \in SentAt(last', d, "PLAYER_JOINED") \cup SentAt(last', d, "ROOM_JOINED") : i < j
      ]_vars

\* The room is as NewRoom returned it: nothing was registered in it yet.
FreshRoom(rm) ==
    /\ rm.Clients = {} /\ rm.GameState = NewGameState /\ ~rm.ctxDone
    /\ rm.tClean = 0 /\ rm.tJoined = 0 /\ rm.dClean = 0 /\ rm.dJoined = 0

\* C13: the first Register a new room takes is its creator's, and handling it
\* gives the creator X; whoever holds X in a room holds X for as long as it
\* holds a symbol there; the hub's ROOM_CREATED carries symbol X, the room id
\* and the creator's id; and a second connection registered next to a single
\* symbol holder gets the other symbol while the first keeps its own.
C13_CreatorIsX ==
    [][ /\ (hubPc.op = "create" /\ hubPc'.op = "created")
           => /\ FreshRoom(rooms[hubPc.r])
              /\ rooms'[hubPc.r].msg = [NoMsg EXCEPT !.kind = "register", !.c = hubPc.c]
        /\ last'.op = "hub_created"
           => /\ ~last'.panic
              /\ last'.c = hubPc.c /\ last'.r = hubPc.r
              /\ Send[last'.c] < sendCap
                    => last'.sent = << [to  |-> last'.c,
                                        msg |-> RoomInfoMsg("ROOM_CREATED", last'.r, last'.c, "X")] >>
        /\ (last'.op = "register" /\ ~last'.panic /\ FreshRoom(rooms[last'.r]))
           => /\ last'.res = "waiting"
              /\ rooms'[last'.r].GameState.PlayerSymbols = Put(NoPlayers, last'.c, "X")
        /\ \A r \in RoomIds : \A c \in RoleHolders(r) :
              (Roles(r)[c] = "X" /\ c \in DOMAIN rooms'[r].GameState.PlayerSymbols)
                 => rooms'[r].GameState.PlayerSymbols[c] = "X"
        /\ (last'.op = "register" /\ ~last'.panic /\ last'.c \notin RoleHolders(last'.r)
               /\ Cardinality(RoleHolders(last'.r)) = 1
               /\ rooms[last'.r].Clients = RoleHolders(last'.r))
           => LET f   == CHOOSE x \in RoleHolders(last'.r) : TRUE
                  now == rooms'[last'.r].GameState.PlayerSymbols
              IN  /\ DOMAIN now = {f, last'.c}
                  /\ now[f] = Roles(last'.r)[f]
                  /\ now[last'.c] \in Symbols \ {now[f]}
      ]_vars

\* C13 witness: the room registered a second connection next to the X holder
\* and gave it O.
C13_Witness ==
    /\ last.op = "register" /\ last.res = "started" /\ ~last.panic
    /\ Roles(last.r)[last.c] = "O"
    /\ \E f \in RoleHolders(last.r) : f # last.c /\ Roles(last.r)[f] = "X"

C18_StrangerRefused ==
    [][ (last'.op = "move" /\ last'.c \notin RoleHolders(last'.r))
           => /\ ~last'.panic
              /\ last'.res = "not_in_game"
              /\ last'.sent = << [to |-> last'.c, msg |-> ErrorMsg("ERROR_NOT_IN_GAME", "")] >>
              /\ Send' = [Send EXCEPT ![last'.c] = @ + 1]
              /\ rooms'[last'.r].GameState = rooms[last'.r].GameState
              /\ rooms'[last'.r].Clients = rooms[last'.r].Clients
              /\ \A q \in RoomIds \ {last'.r} : rooms'[q] = rooms[q]
      ]_vars

\* C19: a join that is refused, by the hub with ERROR_ROOM_NOT_FOUND (the room
\* id is not in Hub.Rooms) or ERROR_ROOM_FULL, or by the room with
\* ERROR_ROOM_FULL, is answered on the requester's Send and on no other, and
\* leaves Hub.Rooms, every room's members and symbols and the other
\* connections' Room as they were; the hub's refusal leaves the requester's
\* Room alone too.
C19_RefusedJoinInert ==
    [][ /\ (last'.op = "hub_join" /\ last'.res \in {"room_not_found", "room_full"})
           => /\ ~last'.panic
              /\ last'.res = "room_not_found" <=> last'.r \notin hRooms
              /\ \A i \in 1..Len(last'.sent) : last'.sent[i].to = last'.c
              /\ Send[last'.c] < sendCap
                    => /\ Len(last'.sent) = 1
                       /\ last'.sent[1].msg.type =
                             (IF last'.r \in hRooms THEN "ERROR_ROOM_FULL" ELSE "ERROR_ROOM_NOT_FOUND")
              /\ hRooms' = hRooms /\ rooms' = rooms /\ cRoom' = cRoom
        /\ (last'.op = "register" /\ last'.res = "room_full")
           => /\ ~last'.panic
              /\ last'.sent = << [to |-> last'.c, msg |-> ErrorMsg("ERROR_ROOM_FULL", "")] >>
              /\ hRooms' = hRooms
              /\ \A q \in RoomIds :
                    /\ rooms'[q].Clients = rooms[q].Clients
                    /\ rooms'[q].GameState = rooms[q].GameState
              /\ \A d \in Clients \ {last'.c} : cRoom'[d] = cRoom[d]
      ]_vars

\* C20: when the room handles the Register of an id that holds a symbol while
\* two ids hold symbols, it puts ROOM_JOINED (the id's symbol, the current
\* board), GAME_START and GAME_UPDATE (the current board and turn) on that
\* id's Send, in that order, and PLAYER_RECONNECTED on the Send of every other
\* member, and leaves the game state as it was.
C20_ReconnectResends ==
    [][ (last'.op = "register" /\ last'.c \in RoleHolders(last'.r)
            /\ Cardinality(RoleHolders(last'.r)) = 2)
        => LET r  == last'.r
               c  == last'.c
               gs == rooms[r].GameState
           IN  /\ ~last'.panic
               /\ last'.res = "reconnected"
               /\ Send[c] + 3 <= sendCap
                     => SentTo(last', c) =
                          << [RoomInfoMsg("ROOM_JOINED", r, c, gs.PlayerSymbols[c])
                                 EXCEPT !.board = getBoardJSON(gs.Board)],
                             GameStartMsg(gs),
                             GameUpdateMsg(gs, 0, 0) >>
               /\ \A d \in rooms'[r].Clients \ {c} :
                     Send[d] < sendCap
                       => SentTo(last', d) = << PlayerMsg("PLAYER_RECONNECTED", c) >>
               /\ \A i \in 1..Len(last'.sent) : last'.sent[i].to \in rooms'[r].Clients
               /\ rooms'[r].GameState = gs
      ]_vars

\* C14: ApplyMove reports the first check that fails, in the order game over,
\* wrong turn, out of bounds, cell occupied, each with a reason of its own, and
\* a call it rejects leaves the game state as it was.
C14_ChecksInOrder ==
    [][ LET over  == g.IsGameOver
            wrong == g.CurrentTurnSymbol # gCall'.sym
            out   == gCall'.row \notin Idx \/ gCall'.col \notin Idx
            taken == ~out /\ g.Board[gCall'.row][gCall'.col] # ""
        IN  /\ gCall'.err = (IF over THEN "game_over"
                              ELSE IF wrong THEN "wrong_turn"
                              ELSE IF out THEN "out_of_bounds"
                              ELSE IF taken THEN "occupied" ELSE "")
            /\ gCall'.err # "" => g' = g
            /\ gCall'.err = "" => g' # g
      ]_vars

\* C14 witness: a call off the grid by the mark whose turn it is not, on a
\* board with marks, was rejected for the turn.
C14_Witness ==
    /\ gCall.err = "wrong_turn" /\ gCall.row \notin Idx
    /\ ~g.IsGameOver /\ g.Board # EmptyBoard

\* C15: every game state reached from NewGameState by ApplyMove calls is in
\* progress (not over, no winner, no draw), won (over, winner, no draw) or
\* drawn (over, draw, no winner), and only one of the three.
C15_OneOutcome ==
    LET inProgress == ~g.IsGameOver /\ g.Winner = "" /\ ~g.IsDraw
        won        == g.IsGameOver /\ g.Winner \in Symbols /\ ~g.IsDraw
        drawn      == g.IsGameOver /\ g.Winner = "" /\ g.IsDraw
    IN  Cardinality({i \in 1..3 : <<inProgress, won, drawn>>[i]}) = 1

\* C15 witness: a drawn game, all nine cells marked.
C15_Witness ==
    /\ g.IsGameOver /\ g.IsDraw /\ g.Winner = ""
    /\ \A i \in Idx, j \in Idx : g.Board[i][j] # ""

\* C16: on every board reached by accepted moves CheckWin names M the winner
\* exactly when a row, a column or a diagonal holds three M; it reports a draw
\* exactly when there is no such line and the nine cells are marked.
C16_CheckWinExact ==
    LET res == CheckWin(g) IN
    /\ res[1] \in Symbols \cup {""}
    /\ \A M \in Symbols : res[1] = M <=> HasLine(g.Board, M)
    /\ res[2] <=> (Full(g.Board) /\ ~\E M \in Symbols : HasLine(g.Board, M))
    /\ g.Board # EmptyBoard => (g.Winner = res[1] /\ g.IsDraw = res[2])

\* C16 witness: the ninth mark completed a line: a full board, and a win.
C16_Witness ==
    /\ Full(g.Board) /\ CheckWin(g) = <<"X", FALSE>>
    /\ g.Winner = "X" /\ ~g.IsDraw

\* What the handler the room's loop is in can do next: one outcome, or one for
\* each MoveData the request can carry.
HandlerOutcomes(r) ==
    LET rm == rooms[r]
        c  == rm.msg.c
    IN  IF rm.pc # "busy" THEN {}
        ELSE IF rm.msg.kind = "register" THEN {RegisterOutcome(rm, r, c)}
        ELSE IF rm.msg.kind = "unregister" THEN {UnregisterOutcome(rm, r, c)}
        ELSE IF rm.msg.kind = "move"
        THEN {MoveOutcome(rm, r, c, m[1], m[2], Nil) : m \in Moves}
        ELSE {}

\* C21: no handler of a room waits in a send to a connection's Send: each send
\* is tried once and dropped when the buffer is full, so a full Send never
\* keeps a room's loop from going on.
C21_EnqueueNeverWaits ==
    \A r \in RoomIds : \A o \in HandlerOutcomes(r) : ~Delivered(o.sends).blocked

\* C22: no room and no hub handler sends on a Send that has been closed: in no
\* interleaving of a departure with a join or a move does the process end in
\* the panic of such a send.
C22_NoSendOnClosed == ~crashed

\* C23: the hub and a room never wait for each other: there is no state in
\* which Hub.Run is in its send to a room's Register or Unregister channel
\* while that room's loop is in its send to the hub's DeleteRoomChan.
C23_NoHubRoomDeadlock ==
    \A r \in RoomIds :
        ~(/\ rooms[r].pc = "del"
          /\ hubPc.op \in {"create", "join", "unreg"}
          /\ hubPc.r = r)

Increasing(q) == \A i \in 1..Len(q), j \in 1..Len(q) : i < j => q[i] < q[j]

\* C24: the messages a handler of a room or of the hub puts on a connection's
\* Send go behind the ones the channel holds, in the order the handler sent
\* them, so that the channel holds its messages in the order the loops
\* handled the requests behind them; and WritePump writes to the Conn what
\* the channel holds, in the channel's order: what was written and what waits
\* are, one after the other, in the order of acceptance (as long as the
\* process runs).
C24_Fifo ==
    [][ /\ \A c \in Clients :
              /\ Increasing(fifo'.out[c] \o fifo'.q[c])
              /\ Len(fifo'.q[c]) = Send'[c]
        /\ (Len(last'.sent) > 0 /\ last' # last /\ ~crashed')
              => \A d \in Clients :
                    fifo'.q[d] = fifo.q[d] \o [i \in 1..Len(SentTo(last', d)) |-> fifo.acc[d] + i]
        /\ \A c \in Clients :
              fifo'.out[c] # fifo.out[c]
                 => /\ fifo'.out[c] = fifo.out[c] \o fifo.q[c]
                    /\ fifo'.q[c] = <<>>
      ]_vars

\* C24 witness: a member of a started game with a mark on the board, whose
\* Conn got two messages and whose Send holds one more that a later handler
\* sent.
C24_Witness ==
    \E c \in Clients, r \in RoomIds :
        /\ c \in rooms[r].Clients
        /\ Cardinality(rooms[r].Clients) = 2
        /\ rooms[r].GameState.Board # EmptyBoard
        /\ Len(fifo.out[c]) >= 2
        /\ Len(fifo.q[c]) >= 1

\* The room's loop is in a handler that writes r.Clients.
WritingClients(r) == rooms[r].pc = "busy" /\ rooms[r].msg.kind \in {"register", "unregister"}

\* C25: a room's r.Clients is read by that room's loop alone: neither the hub,
\* when it decides on a join, nor a grace timer, when it wakes up, reads it
\* while the room's loop is in a handler that writes it.
C25_OwnerOnly ==
    [][ /\ (last'.op = "hub_join" /\ last'.r \in hRooms) => ~WritingClients(last'.r)
        /\ last'.op \in {"timer", "timer_joined"} => ~WritingClients(last'.r)
      ]_vars

\* C26: Hub.Rooms never holds more than maxRooms rooms: a CREATE_ROOM the hub
\* handles while it holds maxRooms rooms creates no room.
C26_RoomLimit ==
    [][ /\ Cardinality(hRooms') <= maxRooms
        /\ (last'.op = "hub_create" /\ Cardinality(hRooms) >= maxRooms)
              => (hRooms' = hRooms /\ rooms' = rooms)
      ]_vars

\* C27: Hub.Clients never holds more than maxTotalClients connections,
\* however the arrivals and the departures interleave; a connection that
\* arrives while it holds that many is refused and never registered.
C27_ClientLimit ==
    [][ /\ Cardinality(hClients') <= maxTotalClients
        /\ (last'.op = "accept_check" /\ Cardinality(hClients) >= maxTotalClients)
              => (last'.res = "refused" /\ conn'[last'.c] = "refused" /\ hClients' = hClients)
      ]_vars

\* C28: the ROOM_LIST a connection gets is what Hub.Rooms and the rooms'
\* members were at one moment between the start of Hub.ListRooms and its send:
\* the rooms it lists are the keys of Hub.Rooms at that moment, each with the
\* ids in its r.Clients at that moment, isFull telling whether they were two.
C28_ListIsSnapshot ==
    [][ last'.op = "list"
          => LET rows == listing[last'.c].rows IN
             \E v \in listing[last'.c].views :
                 /\ DOMAIN rows = DOMAIN v
                 /\ \A r \in DOMAIN v : /\ rows[r].players = v[r]
                                        /\ rows[r].isFull <=> Cardinality(v[r]) = 2
      ]_vars

DeleteOps == {"hub_delete_room", "hub_delete_timer", "hub_delete_timer_joined"}

\* A room as it is once the request that its own goroutines sent is taken.
Requested(rm, old) == [rm EXCEPT !.pc = old.pc, !.dClean = old.dClean, !.dJoined = old.dJoined]

\* C29: a DeleteRoom request for an id that is not in Hub.Rooms (never there,
\* or deleted before) changes nothing: not Hub.Rooms, no room, no connection;
\* one for an id in Hub.Rooms takes that id out, cancels that room's context
\* and changes nothing else; after either the id is not in Hub.Rooms, so that
\* a second request for it is of the first kind.
C29_RetireIdempotent ==
    [][ last'.op \in DeleteOps
          => LET r == last'.r IN
             /\ r \notin hRooms'
             /\ \A q \in RoomIds \ {r} : rooms'[q] = rooms[q]
             /\ <<conn, cRoom, Send, sendClosed, hClients, hubPc>>' = <<conn, cRoom, Send, sendClosed, hClients, hubPc>>
             /\ IF r \in hRooms
                THEN /\ last'.res = "deleted"
                     /\ hRooms' = hRooms \ {r}
                     /\ Requested(rooms'[r], rooms[r]) = [rooms[r] EXCEPT !.ctxDone = TRUE]
                ELSE /\ last'.res = "unknown"
                     /\ hRooms' = hRooms
                     /\ Requested(rooms'[r], rooms[r]) = rooms[r]
      ]_vars

\* C29 witness: the hub took a request for a room that an earlier request had
\* deleted.
C29_Witness ==
    /\ last.op \in DeleteOps
    /\ last.res = "unknown"
    /\ rooms[last.r].ctxDone
    /\ last.r \notin hRooms

\* C30: once the game of a room is over, the room is eventually out of
\* Hub.Rooms with its loop returned, the hub's loop and the room's loop taking
\* the steps they can take.
C30_GameOverRetires ==
    \A r \in RoomIds :
        rooms[r].GameState.IsGameOver ~> (r \notin hRooms /\ rooms[r].pc = "stopped")

\* How many cells of the grid hold mark M.
CountMarks(board, M) == Cardinality({p \in Idx \X Idx : board[p[1]][p[2]] = M})

\* C33: in every room the grid holds as many X as O, or one X more: whose-turn
\* alternates strictly over every sequence of joins, departures and moves.
C33_MarksAlternate ==
    \A r \in RoomIds :
        CountMarks(rooms[r].GameState.Board, "X") - CountMarks(rooms[r].GameState.Board, "O") \in {0, 1}

\* C34: once a channel has accepted a GAME_OVER of a room, no step of that
\* room puts a GAME_UPDATE on a channel.
C34_NoUpdateAfterOver ==
    [][\A r \in RoomIds :
          (rooms[r].sentOver /\ last'.r = r /\ last'.op = "move")
              => ~HasType(last'.sent, "GAME_UPDATE")]_vars

\* The steps that close a connection's Send.
CloseOps == {"hub_close", "readpump_close"}

\* C35: no step closes a Send that is closed already, however the hub's select
\* and close interleave with those of ReadPump's deferred function.
C35_ClosedOnce == ~(last.op \in CloseOps /\ last.panic)

\* C36: nobody is sending to a room whose loop has returned: the hub is not
\* in its send to the Unregister channel of such a room, and no ReadPump is in
\* its send to the ReceiveMove channel of one.
C36_NoSendToStopped ==
    \A r \in RoomIds :
        rooms[r].pc = "stopped" =>
            /\ ~(hubPc.op = "unreg" /\ hubPc.r = r)
            /\ \A c \in Clients : mvRoom[c] # r

\* C37: a room the hub removes from Hub.Rooms has no member or a finished
\* game; one it removes on a grace timer's request has no member.
C37_RetiredRoomIsEmpty ==
    (last.op \in DeleteOps /\ last.res = "deleted") =>
        /\ rooms[last.r].Clients = {} \/ rooms[last.r].GameState.IsGameOver
        /\ last.op # "hub_delete_room" => rooms[last.r].Clients = {}

\* C38: when the loop of room R returns, a connection whose Room is another
\* room keeps it.
C38_StopKeepsOtherBindings ==
    [][last'.op = "stop" =>
          \A c \in Clients : (cRoom[c] # Nil /\ cRoom[c] # last'.r) => cRoom'[c] = cRoom[c]]_vars

\* The steps in which a room's loop finishes a message it took.
HandlerOps == {"register", "unregister", "move"}

\* C39: when a room's loop has finished a Register, an Unregister or a move,
\* the ids in r.Clients are the ids with a symbol in PlayerSymbols, and there
\* are at most 2 of them.
C39_MembersAreRoleHolders ==
    (last.op \in HandlerOps /\ ~last.panic) =>
        /\ rooms[last.r].Clients = RoleHolders(last.r)
        /\ Cardinality(rooms[last.r].Clients) <= 2

\* C39 witness: a member of a room of two left, and the one who stayed is the
\* only member and the only symbol holder.
C39_Witness ==
    /\ last.op = "unregister" /\ last.res = "left" /\ ~last.panic
    /\ Cardinality(rooms[last.r].Clients) = 1
    /\ rooms[last.r].Clients = RoleHolders(last.r)
    /\ last.c \notin RoleHolders(last.r)

\* C40: in every room the symbols are X and O, and two ids never hold the
\* same one.
C40_SymbolsDiffer ==
    \A r \in RoomIds :
        /\ \A c \in RoleHolders(r) : Roles(r)[c] \in Symbols
        /\ \A c \in RoleHolders(r), d \in RoleHolders(r) : c # d => Roles(r)[c] # Roles(r)[d]

\* C40 witness: a connection took the place of one that left, next to the
\* member that holds O, and was given X.
C40_Witness ==
    /\ last.op = "register" /\ last.res = "started" /\ ~last.panic
    /\ Roles(last.r)[last.c] = "X"
    /\ \E f \in RoleHolders(last.r) : f # last.c /\ Roles(last.r)[f] = "O"

\* The cleanup of connection c is done: it is out of Hub.Clients, its Send is
\* closed, and no room has it as a member or is still to be told that it left.
CleanedUp(c) ==
    /\ c \notin hClients
    /\ sendClosed[c]
    /\ ~(hubPc.op = "unreg" /\ hubPc.c = c)
    /\ \A r \in RoomIds : ~(rooms[r].msg.kind = "unregister" /\ rooms[r].msg.c = c)
    /\ \A r \in RoomIds : c \notin rooms[r].Clients

\* C31: a connection whose read pump has returned (for a read error, or
\* because the write pump closed Conn) is eventually cleaned up, unless a
\* panic ends the process first.
C31_LeaverCleanedUp ==
    \A c \in Clients : (conn[c] = "leaving") ~> (CleanedUp(c) \/ crashed)

\* C32: once Hub.Run has returned, no goroutine is in a send on a channel of
\* the hub: no ReadPump's deferred function on h.Unregister, and no room loop
\* and no grace timer on h.DeleteRoomChan.
C32_NoneWaitsForStoppedHub ==
    hubPc.op = "stopped" =>
        /\ \A c \in Clients : conn[c] # "leaving"
        /\ \A r \in RoomIds : rooms[r].pc # "del" /\ rooms[r].dClean = 0 /\ rooms[r].dJoined = 0

=============================================================================
